---- MODULE Spec2Model ----
(***************************************************************************)
(* Loan eligibility engine of Loandocs-analyzer (src/loan_calculator.py). *)
(*                                                                         *)
(* Numbers.  Python computes with floats; the model computes with exact   *)
(* rationals <<n, d>> (d > 0, lowest terms), so every /, *, ** and round() *)
(* of the source is an operator here and a division by zero is visible as  *)
(* such.  Money is counted in thousands of rupees to keep the exact        *)
(* numerators inside TLC's integers.                                       *)
(***************************************************************************)
EXTENDS Integers, Sequences, FiniteSets, TLC

\* calc       the calculator object: its configuration fields
\* today      what dt.today() returns
\* pc         "idle", or "called" once a call of calculate_eligibility ended
\* args       the arguments of that call, outcome what it returned or raised
\* remembered an earlier call the caller kept (its arguments, its outcome,
\*            the calculator after it, and whether a call with other
\*            arguments came between), to compare a later one with
\* supplied   the configuration dict last passed to __init__ or update_config
\* gen        a call of QueryGenerator.generate_queries: its arguments, the
\*            queries in the order the rules appended them, and what it returned
\* st         st.session_state of the application
\* widgets    the values of the sidebar's number inputs
\* run        analyze_all_documents while it runs: the files, how many of
\*            them the loop has processed, categorized and applicant_info,
\*            and the two arguments; None when no analysis runs
VARIABLES calc, today, pc, args, outcome, remembered, supplied, gen, st, widgets, run

vars == <<calc, today, pc, args, outcome, remembered, supplied, gen, st, widgets, run>>

\* the state of the calculator and of the caller that compares its results
calcVars == <<calc, today, pc, args, outcome, remembered, supplied>>

\* the state of the query generator's caller and of the application
appVars == <<gen, st, widgets, run>>

----------------------------------------------------------------------------
(* Exact arithmetic standing for Python's float operators *)

Abs(i) == IF i < 0 THEN -i ELSE i

RECURSIVE GCD(_, _)
GCD(a, b) == IF b = 0 THEN a ELSE GCD(b, a % b)

\* the rational n/d in lowest terms with a positive denominator (d # 0)
Rat(n, d) ==
    LET g == GCD(Abs(n), Abs(d))
        s == IF d < 0 THEN -1 ELSE 1
    IN  <<(s * n) \div g, (s * d) \div g>>

RInt(i) == <<i, 1>>

Zero == RInt(0)

RAdd(x, y) ==
    LET g == GCD(x[2], y[2])
    IN  Rat(x[1] * (y[2] \div g) + y[1] * (x[2] \div g), (x[2] \div g) * y[2])

RNeg(x) == <<-x[1], x[2]>>

RSub(x, y) == RAdd(x, RNeg(y))

\* cross-reduced before multiplying, so the product stays in lowest terms
RMul(x, y) ==
    LET g1 == GCD(Abs(x[1]), y[2])
        g2 == GCD(Abs(y[1]), x[2])
    IN  IF x[1] = 0 \/ y[1] = 0 THEN Zero
        ELSE <<(x[1] \div g1) * (y[1] \div g2), (x[2] \div g2) * (y[2] \div g1)>>

\* x / y for y # 0; the callers decide what a zero divisor does
RDiv(x, y) ==
    IF y[1] < 0 THEN RMul(x, <<-y[2], -y[1]>>) ELSE RMul(x, <<y[2], y[1]>>)

\* x <= y, by integer parts and then the reciprocals of the fractional
\* parts, so that no cross product is formed
RECURSIVE RLe(_, _)
RLe(x, y) ==
    LET qx == x[1] \div x[2]
        qy == y[1] \div y[2]
        rx == x[1] % x[2]
        ry == y[1] % y[2]
    IN  IF qx # qy THEN qx < qy
        ELSE IF rx = 0 THEN TRUE
        ELSE IF ry = 0 THEN FALSE
        ELSE RLe(<<y[2], ry>>, <<x[2], rx>>)

RLt(x, y) == ~RLe(y, x)

RMax(x, y) == IF RLe(y, x) THEN x ELSE y

RMin(x, y) == IF RLe(x, y) THEN x ELSE y

\* x ** n for an integer n >= 0
RECURSIVE RPow(_, _)
RPow(x, n) == IF n = 0 THEN RInt(1) ELSE RMul(x, RPow(x, n - 1))

\* round(x, 2): the nearest multiple of 1/100, a tie going to the even one
Round2(x) ==
    LET q  == x[1] \div x[2]
        r  == x[1] % x[2]
        c  == (r * 100) \div x[2]
        r2 == (r * 100) % x[2]
        up == \/ 2 * r2 > x[2]
              \/ 2 * r2 = x[2] /\ c % 2 = 1
    IN  Rat(q * 100 + c + (IF up THEN 1 ELSE 0), 100)

----------------------------------------------------------------------------
(* Python values *)

\* an optional value: <<>> is None or an absent key, <<v>> is the value v
None == <<>>

Some(v) == <<v>>

IsNone(o) == o = <<>>

\* dict.get(key, default) on a dict modelled as a function on its keys
Get(d, key, default) == IF key \in DOMAIN d THEN d[key] ELSE default

\* {} where a dict of a bank statement is expected
EmptyStatement == [k \in {} |-> 0]

RECURSIVE SumSeq(_)
SumSeq(s) == IF s = <<>> THEN 0 ELSE Head(s) + SumSeq(Tail(s))

Min(a, b) == IF a <= b THEN a ELSE b

Max(a, b) == IF a >= b THEN a ELSE b

----------------------------------------------------------------------------
(* LoanEligibilityCalculator: configuration *)

\* v / 100 if v > 1 else v
NormalizeRatio(v) == IF RLt(RInt(1), v) THEN RDiv(v, RInt(100)) ELSE v

\* __init__: the fields of a calculator built from the dict config
\* (None is replaced by the empty dict); money defaults in thousands
Init__(config) ==
    [ FOIR_SALARIED          |-> NormalizeRatio(Get(config, "foir_salaried", RInt(60))),
      MAX_AGE_SALARIED       |-> Get(config, "max_age_salaried", 60),
      MAX_TENURE_YEARS       |-> Get(config, "max_tenure_years", 30),
      MIN_INCOME_THRESHOLD   |-> Get(config, "min_income_threshold", 25),
      HIGH_FOIR_THRESHOLD    |-> NormalizeRatio(Get(config, "high_foir_threshold", RInt(40))),
      FOIR_SELF_EMPLOYED_MAX |-> NormalizeRatio(Get(config, "foir_self_employed", RInt(90))),
      MAX_AGE_SELF_EMPLOYED  |-> Get(config, "max_age_self_employed", 70) ]

\* update_config: only the keys present in config are assigned
update_config(self, config) ==
    [ FOIR_SALARIED          |->
          IF "foir_salaried" \in DOMAIN config
          THEN NormalizeRatio(config["foir_salaried"]) ELSE self.FOIR_SALARIED,
      MAX_AGE_SALARIED       |-> Get(config, "max_age_salaried", self.MAX_AGE_SALARIED),
      MAX_TENURE_YEARS       |-> Get(config, "max_tenure_years", self.MAX_TENURE_YEARS),
      MIN_INCOME_THRESHOLD   |-> Get(config, "min_income_threshold", self.MIN_INCOME_THRESHOLD),
      HIGH_FOIR_THRESHOLD    |->
          IF "high_foir_threshold" \in DOMAIN config
          THEN NormalizeRatio(config["high_foir_threshold"]) ELSE self.HIGH_FOIR_THRESHOLD,
      FOIR_SELF_EMPLOYED_MAX |->
          IF "foir_self_employed" \in DOMAIN config
          THEN NormalizeRatio(config["foir_self_employed"]) ELSE self.FOIR_SELF_EMPLOYED_MAX,
      MAX_AGE_SELF_EMPLOYED  |-> self.MAX_AGE_SELF_EMPLOYED ]

----------------------------------------------------------------------------
(* calculate_age.  A date string is [sep, a, b, c]: three numeral fields   *)
(* a, b, c joined by the separator sep ("15/06/1996" is sep "/", a 15,     *)
(* b 6, c 1996); any other text is a string whose sep none of the formats  *)
(* has.                                                                    *)

IsLeap(y) == (y % 4 = 0 /\ y % 100 # 0) \/ y % 400 = 0

DaysInMonth(y, m) ==
    IF m = 2 THEN (IF IsLeap(y) THEN 29 ELSE 28)
    ELSE IF m \in {4, 6, 9, 11} THEN 30 ELSE 31

\* the formats tried, in the order of the source
DateFormats ==
    << [sep |-> "/", order |-> "dmY"],
       [sep |-> "-", order |-> "dmY"],
       [sep |-> "-", order |-> "Ymd"],
       [sep |-> ".", order |-> "dmY"] >>

\* dt.strptime(text, fmt): Some(date), or None where strptime raises
strptime(text, fmt) ==
    LET d == IF fmt.order = "dmY" THEN text.a ELSE text.c
        m == text.b
        y == IF fmt.order = "dmY" THEN text.c ELSE text.a
    IN  IF /\ text.sep = fmt.sep
           /\ y \in 1000..9999
           /\ m \in 1..12
           /\ d >= 1
           /\ d <= DaysInMonth(y, m)
        THEN Some([year |-> y, month |-> m, day |-> d])
        ELSE None

\* the for/else loop over the formats, from format number i on
RECURSIVE ParseFrom(_, _)
ParseFrom(text, i) ==
    IF i > Len(DateFormats) THEN None
    ELSE IF ~IsNone(strptime(text, DateFormats[i])) THEN strptime(text, DateFormats[i])
    ELSE ParseFrom(text, i + 1)

\* (today.month, today.day) < (dob.month, dob.day), as 1 or 0
BirthdayAhead(now, dob) ==
    IF now.month < dob.month \/ (now.month = dob.month /\ now.day < dob.day)
    THEN 1 ELSE 0

\* calculate_age(date_of_birth): Some(age) or None; a date_of_birth of
\* None has no .year and ends in the outer except
calculate_age(date_of_birth, now) ==
    IF IsNone(date_of_birth) THEN None
    ELSE LET dob == ParseFrom(date_of_birth[1], 1)
         IN  IF IsNone(dob) THEN None
             ELSE Some(now.year - dob[1].year - BirthdayAhead(now, dob[1]))

calculate_remaining_service_years(current_age, max_age) == Max(0, max_age - current_age)

\* calculate_auto_tenure(current_age) for current_age None or Some(age)
calculate_auto_tenure(self, current_age) ==
    IF IsNone(current_age) THEN self.MAX_TENURE_YEARS
    ELSE Min(self.MAX_TENURE_YEARS,
             calculate_remaining_service_years(current_age[1], self.MAX_AGE_SALARIED))

----------------------------------------------------------------------------
(* Income *)

FixedKeys ==
    << "basic", "hra", "conveyance_allowance", "travel_allowance",
       "medical_allowance", "special_allowance", "lta",
       "city_compensatory_allowance", "education_allowance", "other_allowances" >>

VariableKeys == << "incentive", "overtime", "bonus", "commission", "arrears" >>

\* categorize_salary_components: the two dicts, each key read with default 0
categorize_salary_components(salary_slip) ==
    LET earnings == Get(salary_slip, "earnings", <<>>)
    IN  [ fixed    |-> [i \in 1..Len(FixedKeys) |-> Get(earnings, FixedKeys[i], 0)],
          variable |-> [i \in 1..Len(VariableKeys) |-> Get(earnings, VariableKeys[i], 0)] ]

\* the running totals of the loop over the slips
RECURSIVE TotalOf(_, _)
TotalOf(salary_slips, part) ==
    IF salary_slips = <<>> THEN 0
    ELSE SumSeq(categorize_salary_components(Head(salary_slips))[part])
         + TotalOf(Tail(salary_slips), part)

\* detailed_fixed[key] / detailed_variable[key]: one component over all slips
RECURSIVE DetailedOf(_, _, _)
DetailedOf(salary_slips, part, i) ==
    IF salary_slips = <<>> THEN 0
    ELSE categorize_salary_components(Head(salary_slips))[part][i]
         + DetailedOf(Tail(salary_slips), part, i)

VariableConsideredInFull(total_variable) == RDiv(RInt(total_variable), RInt(6))

\* (total_variable / 6) * 0.5
VariableConsidered(total_variable) ==
    RMul(RDiv(RInt(total_variable), RInt(6)), Rat(1, 2))

\* calculate_gross_monthly_income: (gross, fixed, variable, breakdowns)
calculate_gross_monthly_income(salary_slips) ==
    IF Len(salary_slips) = 0
    THEN [ gross |-> Zero, fixed |-> Zero, variable |-> Zero, breakdowns |-> <<>> ]
    ELSE LET count        == Len(salary_slips)
             avg_fixed    == RDiv(RInt(TotalOf(salary_slips, "fixed")), RInt(count))
             avg_variable == VariableConsidered(TotalOf(salary_slips, "variable"))
         IN  [ gross      |-> RAdd(avg_fixed, avg_variable),
               fixed      |-> avg_fixed,
               variable   |-> avg_variable,
               breakdowns |->
                 [ fixed_breakdown |->
                     [i \in 1..Len(FixedKeys) |->
                        RDiv(RInt(DetailedOf(salary_slips, "fixed", i)), RInt(count))],
                   variable_breakdown |->
                     [i \in 1..Len(VariableKeys) |->
                        VariableConsidered(DetailedOf(salary_slips, "variable", i))] ] ]

----------------------------------------------------------------------------
(* Obligations.  Python numbers list positions from 0: the obligation at   *)
(* position i of the sequence has the index i - 1.                         *)

\* is_excluded = i in excluded_emis (None is replaced by the empty list)
IsExcluded(i, excluded_emis) == (i - 1) \in excluded_emis

\* the dict appended to emi_details for the obligation at position i
EmiDetail(emi, i, excluded_emis) ==
    [ lender            |-> Get(emi, "lender", "Unknown"),
      amount            |-> Get(emi, "emi_amount", 0),
      type              |-> Get(emi, "loan_type", "Unknown"),
      excluded          |-> IsExcluded(i, excluded_emis),
      has_loan_document |-> Get(emi, "has_loan_document", FALSE) ]

\* if not is_excluded: total += amount
CountedInverted(i, excluded_emis) == IsExcluded(i, excluded_emis)

Counted(i, excluded_emis) == ~IsExcluded(i, excluded_emis)

\* total after the first k obligations
RECURSIVE TotalUpTo(_, _, _)
TotalUpTo(emis_list, excluded_emis, k) ==
    IF k = 0 THEN 0
    ELSE TotalUpTo(emis_list, excluded_emis, k - 1)
         + (IF Counted(k, excluded_emis)
            THEN Get(emis_list[k], "emi_amount", 0) ELSE 0)

\* the detail list without the excluded obligations
RECURSIVE DetailsOfCounted(_, _, _)
DetailsOfCounted(emis_list, excluded_emis, k) ==
    IF k = 0 THEN <<>>
    ELSE DetailsOfCounted(emis_list, excluded_emis, k - 1)
         \o (IF IsExcluded(k, excluded_emis) THEN <<>>
             ELSE <<EmiDetail(emis_list[k], k, excluded_emis)>>)

calculate_total_obligations_Filtered(emis_list, excluded_emis) ==
    [ total       |-> TotalUpTo(emis_list, excluded_emis, Len(emis_list)),
      emi_details |-> DetailsOfCounted(emis_list, excluded_emis, Len(emis_list)) ]

\* calculate_total_obligations: (total, emi_details)
calculate_total_obligations(emis_list, excluded_emis) ==
    [ total       |-> TotalUpTo(emis_list, excluded_emis, Len(emis_list)),
      emi_details |-> [i \in 1..Len(emis_list) |-> EmiDetail(emis_list[i], i, excluded_emis)] ]

----------------------------------------------------------------------------
(* Ratios and amortization *)

\* calculate_foir
calculate_foir(total_obligations, gross_income) ==
    IF gross_income = Zero THEN Zero
    ELSE RMul(RDiv(total_obligations, gross_income), RInt(100))

calculate_maximum_emi_Signed(self, gross_income, existing_obligations) ==
    RSub(RMul(gross_income, self.FOIR_SALARIED), existing_obligations)

\* calculate_maximum_emi
calculate_maximum_emi(self, gross_income, existing_obligations) ==
    RMax(Zero, RSub(RMul(gross_income, self.FOIR_SALARIED), existing_obligations))

\* interest_rate / (12 * 100)
MonthlyRate(interest_rate) == RDiv(interest_rate, RInt(12 * 100))

\* (1 + monthly_rate) ** tenure_months
Growth(interest_rate, tenure_months) ==
    RPow(RAdd(RInt(1), MonthlyRate(interest_rate)), tenure_months)

calculate_loan_amount_from_emi_PerYear(emi, interest_rate, tenure_months) ==
    IF interest_rate = Zero THEN RMul(emi, RInt(tenure_months \div 12))
    ELSE LET denominator == RMul(MonthlyRate(interest_rate),
                                 Growth(interest_rate, tenure_months))
             numerator   == RSub(Growth(interest_rate, tenure_months), RInt(1))
         IN  IF denominator = Zero THEN Zero
             ELSE RMul(emi, RDiv(numerator, denominator))

\* calculate_loan_amount_from_emi
calculate_loan_amount_from_emi(emi, interest_rate, tenure_months) ==
    IF interest_rate = Zero THEN RMul(emi, RInt(tenure_months))
    ELSE LET denominator == RMul(MonthlyRate(interest_rate),
                                 Growth(interest_rate, tenure_months))
             numerator   == RSub(Growth(interest_rate, tenure_months), RInt(1))
         IN  IF denominator = Zero THEN Zero
             ELSE RMul(emi, RDiv(numerator, denominator))

\* the divisor of emi_for_requested in the branch taken
EmiDivisor(interest_rate, tenure_months) ==
    IF RLt(Zero, interest_rate)
    THEN RSub(Growth(interest_rate, tenure_months), RInt(1))
    ELSE RInt(tenure_months)

\* emi_for_requested: Some(value), or None where Python raises
\* ZeroDivisionError because the divisor is 0
EmiForRequested(requested_loan_amount, interest_rate, tenure_months) ==
    IF EmiDivisor(interest_rate, tenure_months) = Zero THEN None
    ELSE IF RLt(Zero, interest_rate)
    THEN Some(RDiv(RMul(RMul(requested_loan_amount, MonthlyRate(interest_rate)),
                        Growth(interest_rate, tenure_months)),
                   EmiDivisor(interest_rate, tenure_months)))
    ELSE Some(RDiv(requested_loan_amount, EmiDivisor(interest_rate, tenure_months)))

----------------------------------------------------------------------------
(* calculate_eligibility *)

\* the messages appended to issues and warnings, by kind and the values
\* their f-strings quote
IssueAgeUnknown == [kind |-> "age_unknown"]

IssueAgeLimit(age, limit) == [kind |-> "age_limit", age |-> age, limit |-> limit]

IssueTenure(requested, max_tenure, age) ==
    [kind |-> "tenure", requested |-> requested, max_tenure |-> max_tenure, age |-> age]

IssueFoir(foir, limit) == [kind |-> "foir", foir |-> foir, limit |-> limit]

WarnConditional == [kind |-> "conditional"]

WarnLowIncome(threshold) == [kind |-> "low_income", threshold |-> threshold]

WarnHighFoir(foir) == [kind |-> "high_foir", foir |-> foir]

\* age = self.calculate_age(...); if age is None: age = applicant_data.get('age', 30)
AgeUsed(applicant_data, now) ==
    LET age == calculate_age(Get(applicant_data, "date_of_birth", None), now)
    IN  IF IsNone(age) THEN Get(applicant_data, "age", 30) ELSE age[1]

\* max_tenure = min(self.MAX_TENURE_YEARS, remaining_years)
MaxTenure(self, age) ==
    Min(self.MAX_TENURE_YEARS,
        calculate_remaining_service_years(age, self.MAX_AGE_SALARIED))

\* if requested_tenure_years is None: requested_tenure_years = max_tenure
TenureAsked(requested_tenure_years, max_tenure) ==
    IF IsNone(requested_tenure_years) THEN max_tenure ELSE requested_tenure_years[1]

TenureNotClamped(asked, max_tenure) == asked

\* if requested_tenure_years > max_tenure: ... requested_tenure_years = max_tenure
TenureClamped(asked, max_tenure) == IF asked > max_tenure THEN max_tenure ELSE asked

FoirBelowLimit(self, foir_with_loan) ==
    RLt(foir_with_loan, RMul(self.FOIR_SALARIED, RInt(100)))

\* foir_with_loan <= (self.FOIR_SALARIED * 100)
FoirWithinLimit(self, foir_with_loan) ==
    RLe(foir_with_loan, RMul(self.FOIR_SALARIED, RInt(100)))

FoirFailureAmountsApproved(max_loan_by_income) ==
    [ recommended_loan_amount |-> Round2(max_loan_by_income),
      approved_loan_amount    |-> Round2(max_loan_by_income) ]

\* the else branch of the FOIR test: only recommended_loan_amount is set
FoirFailureAmounts(max_loan_by_income) ==
    [ recommended_loan_amount |-> Round2(max_loan_by_income) ]

\* age < self.MAX_AGE_SALARIED and requested_tenure_years <= max_tenure
AgeAndTenureOk(self, age, tenure, max_tenure) ==
    age < self.MAX_AGE_SALARIED /\ tenure <= max_tenure

\* the issues recorded before the income is looked at
EarlyIssues(self, applicant_data, requested_tenure_years, now) ==
    LET age        == AgeUsed(applicant_data, now)
        max_tenure == MaxTenure(self, age)
        asked      == TenureAsked(requested_tenure_years, max_tenure)
    IN  (IF IsNone(calculate_age(Get(applicant_data, "date_of_birth", None), now))
         THEN <<IssueAgeUnknown>> ELSE <<>>)
        \o (IF age >= self.MAX_AGE_SALARIED
            THEN <<IssueAgeLimit(age, self.MAX_AGE_SALARIED)>> ELSE <<>>)
        \o (IF asked > max_tenure
            THEN <<IssueTenure(asked, max_tenure, age)>> ELSE <<>>)

AdvisoryWarningsInclusive(self, gross_income, current_foir) ==
    (IF RLe(gross_income, RInt(self.MIN_INCOME_THRESHOLD))
     THEN <<WarnLowIncome(self.MIN_INCOME_THRESHOLD)>> ELSE <<>>)
    \o (IF RLe(RMul(self.HIGH_FOIR_THRESHOLD, RInt(100)), current_foir)
        THEN <<WarnHighFoir(Round2(current_foir))>> ELSE <<>>)

\* the warnings appended after the verdict
AdvisoryWarnings(self, gross_income, current_foir) ==
    (IF RLt(gross_income, RInt(self.MIN_INCOME_THRESHOLD))
     THEN <<WarnLowIncome(self.MIN_INCOME_THRESHOLD)>> ELSE <<>>)
    \o (IF RLt(RMul(self.HIGH_FOIR_THRESHOLD, RInt(100)), current_foir)
        THEN <<WarnHighFoir(Round2(current_foir))>> ELSE <<>>)

\* One call.  a is the record of the arguments: applicant_data,
\* salary_slips, emis_list, requested_loan_amount, requested_tenure_years,
\* interest_rate, excluded_emis.  The value is [status |-> "returned",
\* result, locals] or [status |-> "raised", exception, locals], locals
\* being the function's local variables when it ends.
calculate_eligibility(self, now, a) ==
    LET age          == AgeUsed(a.applicant_data, now)
        remaining    == calculate_remaining_service_years(age, self.MAX_AGE_SALARIED)
        max_tenure   == MaxTenure(self, age)
        tenure       == TenureClamped(TenureAsked(a.requested_tenure_years, max_tenure),
                                      max_tenure)
        early        == EarlyIssues(self, a.applicant_data, a.requested_tenure_years, now)
        income       == calculate_gross_monthly_income(a.salary_slips)
        obligations  == calculate_total_obligations(a.emis_list, a.excluded_emis)
        total        == RInt(obligations.total)
        current_foir == calculate_foir(total, income.gross)
        max_emi      == calculate_maximum_emi(self, income.gross, total)
        months       == tenure * 12
        max_loan     == calculate_loan_amount_from_emi(max_emi, a.interest_rate, months)
        emi          == EmiForRequested(RInt(a.requested_loan_amount), a.interest_rate, months)
        locals       == [ age |-> age, max_tenure |-> max_tenure,
                          requested_tenure_years |-> tenure, tenure_months |-> months,
                          gross_income |-> income.gross, total_obligations |-> total,
                          current_foir |-> current_foir, max_emi |-> max_emi,
                          max_loan_by_income |-> max_loan ]
        calcs        == [ current_age |-> age,
                          remaining_service_years |-> remaining,
                          max_tenure_allowed |-> max_tenure,
                          approved_tenure_years |-> tenure,
                          gross_monthly_income |-> Round2(income.gross),
                          fixed_income |-> Round2(income.fixed),
                          variable_income_considered |-> Round2(income.variable),
                          income_breakdowns |-> income.breakdowns,
                          total_existing_obligations |-> Round2(total),
                          emi_details |-> obligations.emi_details,
                          current_foir_percent |-> Round2(current_foir),
                          max_emi_allowed |-> Round2(max_emi),
                          max_loan_by_income |-> Round2(max_loan) ]
    IN  IF IsNone(emi)
        THEN [ status |-> "raised", exception |-> "ZeroDivisionError", locals |-> locals ]
        ELSE
        LET foir_with_loan == calculate_foir(RAdd(total, emi[1]), income.gross)
            calcs2 == calcs @@ [ emi_for_requested_loan |-> Round2(emi[1]),
                                 foir_with_requested_loan |-> Round2(foir_with_loan) ]
            locals2 == locals @@ [ emi_for_requested |-> emi[1],
                                   foir_with_loan |-> foir_with_loan ]
            advisory == AdvisoryWarnings(self, income.gross, current_foir)
        IN  IF FoirWithinLimit(self, foir_with_loan)
            THEN IF AgeAndTenureOk(self, age, tenure, max_tenure)
                 THEN [ status |-> "returned", locals |-> locals2,
                        result |->
                          [ eligible |-> TRUE, issues |-> early, warnings |-> advisory,
                            calculations |-> calcs2 @@
                              [ approved_loan_amount |-> RInt(a.requested_loan_amount) ] ] ]
                 ELSE [ status |-> "returned", locals |-> locals2,
                        result |->
                          [ eligible |-> FALSE, issues |-> early,
                            warnings |-> <<WarnConditional>> \o advisory,
                            calculations |-> calcs2 @@
                              [ approved_loan_amount |->
                                  RMin(RInt(a.requested_loan_amount), max_loan) ] ] ]
            ELSE [ status |-> "returned", locals |-> locals2,
                   result |->
                     [ eligible |-> FALSE,
                       issues |-> early \o
                         <<IssueFoir(Round2(foir_with_loan),
                                     RMul(self.FOIR_SALARIED, RInt(100)))>>,
                       warnings |-> advisory,
                       calculations |-> calcs2 @@ FoirFailureAmounts(max_loan) ] ]

----------------------------------------------------------------------------
(* Text.  A Python str is a sequence of tokens [w, c, v]: a word w written *)
(* in lower case with its case pattern c ("lower", "upper", "title"), or a *)
(* token without case ("none": digits and punctuation); a number put in by *)
(* an f-string is the token "number" carrying its value v.  Blanks are not *)
(* tokens.  "Salary Slips" is Salary, Slip, s.                             *)

Tok(w, c) == [w |-> w, c |-> c, v |-> None]

\* the words ws, all of the case pattern c
RECURSIVE Words(_, _)
Words(c, ws) == IF ws = <<>> THEN <<>> ELSE <<Tok(Head(ws), c)>> \o Words(c, Tail(ws))

Lo(ws) == Words("lower", ws)

Up(ws) == Words("upper", ws)

Ti(ws) == Words("title", ws)

\* digits and punctuation
Sym(ws) == Words("none", ws)

\* round(x, places) and the format specs .1f and ,.0f: half to even
RoundPlaces(x, scale) ==
    LET y == RMul(x, RInt(scale))
        f == y[1] \div y[2]
        r == y[1] % y[2]
        up == \/ 2 * r > y[2]
              \/ 2 * r = y[2] /\ f % 2 = 1
    IN  Rat(f + (IF up THEN 1 ELSE 0), scale)

\* {x:.1f}, {x:,.0f} and {x} in an f-string
Num(x, scale) == << [w |-> "number", c |-> "none", v |-> Some(RoundPlaces(x, scale))] >>

\* str.upper(), str.lower(), str.title()
Recase(text, c) ==
    [i \in 1..Len(text) |-> IF text[i].c = "none" THEN text[i] ELSE [text[i] EXCEPT !.c = c]]

\* phrase in text
Contains(text, phrase) ==
    \E i \in 0..(Len(text) - Len(phrase)) :
        SubSeq(text, i + 1, i + Len(phrase)) = phrase

\* the tokens of the lender names and loan types the obligations carry
StrTokens(s) ==
    CASE s = "home"        -> Lo(<<"home">>)
      [] s = "credit card" -> Lo(<<"credit", "card">>)
      [] s = "HDFC"        -> Up(<<"hdfc">>)
      [] s = "SBI"         -> Up(<<"sbi">>)
      [] s = "ICICI"       -> Up(<<"icici">>)
      [] s = "Unknown"     -> Ti(<<"unknown">>)

\* the strings calculate_eligibility appends to issues
IssueText(issue) ==
    CASE issue.kind = "age_unknown" ->
           Ti(<<"unable">>) \o Lo(<<"to", "determine", "applicant", "age", "from",
                                    "date", "of", "birth">>)
      [] issue.kind = "age_limit" ->
           Ti(<<"applicant">>) \o Lo(<<"age">>) \o Sym(<<"(">>)
           \o Num(RInt(issue.age), 1) \o Sym(<<")">>)
           \o Lo(<<"exceeds", "maximum", "age", "limit">>) \o Sym(<<"(">>)
           \o Num(RInt(issue.limit), 1) \o Sym(<<")">>)
      [] issue.kind = "tenure" ->
           Ti(<<"requested">>) \o Lo(<<"tenure">>) \o Sym(<<"(">>)
           \o Num(RInt(issue.requested), 1) \o Lo(<<"years">>) \o Sym(<<")">>)
           \o Lo(<<"exceeds", "maximum", "allowed">>) \o Sym(<<"(">>)
           \o Num(RInt(issue.max_tenure), 1)
           \o Lo(<<"years", "based", "on", "age">>)
           \o Num(RInt(issue.age), 1) \o Sym(<<")">>)
      [] issue.kind = "foir" ->
           Up(<<"foir">>) \o Sym(<<"(">>) \o Num(issue.foir, 100) \o Sym(<<"%", ")">>)
           \o Lo(<<"exceeds", "maximum", "allowed">>) \o Sym(<<"(">>)
           \o Num(issue.limit, 100) \o Sym(<<"%", ")">>)

----------------------------------------------------------------------------
(* QueryGenerator.generate_queries *)

Query(category, text, priority) ==
    [category |-> category, query |-> text, priority |-> priority]

Dash == Sym(<<"-">>)

DocumentQueryMedium(doc) ==
    Query("documents", Up(<<"salary", "slip">>) \o Dash \o doc, "Medium")

\* the query appended for one entry of pending_documents
DocumentQuery(doc) ==
    IF Contains(doc, Ti(<<"salary", "slip">>))
    THEN Query("documents", Up(<<"salary", "slip">>) \o Dash \o doc, "High")
    ELSE IF Contains(doc, Ti(<<"form">>) \o Sym(<<"16">>))
    THEN Query("documents",
               Up(<<"form">>) \o Sym(<<"16">>) \o Dash \o Ti(<<"latest", "form">>)
               \o Sym(<<"16">>) \o Lo(<<"with">>) \o Ti(<<"part">>) \o Up(<<"a">>)
               \o Lo(<<"and">>) \o Ti(<<"part">>) \o Up(<<"b">>) \o Lo(<<"required">>),
               "High")
    ELSE IF Contains(doc, Ti(<<"bank", "statement">>))
    THEN Query("documents",
               Up(<<"bank", "statement">>) \o Dash \o Sym(<<"6">>)
               \o Lo(<<"months", "salary", "account", "bank", "statement",
                       "required", "in">>) \o Up(<<"pdf">>) \o Lo(<<"format">>),
               "High")
    ELSE Query("documents",
               Recase(doc, "upper") \o Dash \o Ti(<<"required">>)
               \o Lo(<<"for", "processing">>),
               "High")

\* 1. one query per pending document
DocumentQueries(pending_docs) ==
    LET docs == Get(pending_docs, "pending_documents", <<>>)
    IN  [i \in 1..Len(docs) |-> DocumentQuery(docs[i])]

\* 2. appointment letter and resume when the job is newer than 3 years
EmploymentQueries(analysis_results) ==
    IF Get(analysis_results, "job_since_years", 0) < 3
    THEN << Query("employment",
                  Up(<<"appointment", "letter">>) \o Dash \o Ti(<<"required">>)
                  \o Lo(<<"as", "current", "employment", "is", "less", "than">>)
                  \o Sym(<<"3">>) \o Lo(<<"years">>),
                  "Medium"),
            Query("employment",
                  Up(<<"resume">>) \o Dash \o Ti(<<"complete">>)
                  \o Lo(<<"work", "history", "required">>),
                  "Medium") >>
    ELSE <<>>

EveryContains(fields, phrase) ==
    fields # <<>> /\ \A i \in 1..Len(fields) : Contains(fields[i], phrase)

\* any(phrase in field for field in fields)
AnyContains(fields, phrase) == \E i \in 1..Len(fields) : Contains(fields[i], phrase)

\* the employer letter when the office address is pending
OfficeAddressQueries(pending_forms) ==
    IF AnyContains(Get(pending_forms, "pending_form_fields", <<>>),
                   Ti(<<"office", "address">>))
    THEN << Query("employment",
                  Up(<<"employer", "letter">>) \o Dash \o Ti(<<"detailed">>)
                  \o Lo(<<"office", "address", "required", "for", "verification">>),
                  "High") >>
    ELSE <<>>

\* emi.get(key) or 'Unknown', for a key that is absent or holds a name
OrUnknown(emi, key) == IF key \in DOMAIN emi THEN emi[key] ELSE "Unknown"

\* the query appended for one obligation
LoanLetterQuery(emi) ==
    LET loan_type == OrUnknown(emi, "loan_type")
        lender    == OrUnknown(emi, "lender")
        amount    == Get(emi, "emi_amount", 0)
        loan_type_display ==
            IF loan_type # "Unknown" THEN Recase(StrTokens(loan_type), "title")
            ELSE StrTokens("Unknown")
    IN  Query("obligations",
              Up(<<"loan", "outstanding", "letter">>) \o Dash \o loan_type_display
              \o Lo(<<"loan", "with">>) \o StrTokens(lender) \o Sym(<<",">>)
              \o Up(<<"emi">>) \o Ti(<<"rs">>) \o Num(RInt(amount), 1) \o Dash
              \o Ti(<<"statement">>) \o Lo(<<"of">>) \o Ti(<<"account">>)
              \o Lo(<<"required">>),
              "High")

\* for emi in emis: queries.append(...)
LoanLetterQueries(emis) == [i \in 1..Len(emis) |-> LoanLetterQuery(emis[i])]

CreditCardQuery ==
    Query("obligations",
          Up(<<"credit", "card", "statement">>) \o Dash \o Ti(<<"latest">>)
          \o Lo(<<"credit", "card", "statement", "required", "to", "verify",
                  "outstanding", "and", "utilization">>),
          "Medium")

\* 3. the obligations, then the credit card statement
ObligationQueries(analysis_results) ==
    LET emis == Get(analysis_results, "emis_found", <<>>)
    IN  LoanLetterQueries(emis)
        \o (IF \E i \in 1..Len(emis) : Get(emis[i], "loan_type", "") = "credit card"
            THEN <<CreditCardQuery>> ELSE <<>>)

FoirQueryHigh(foir) ==
    Query("eligibility",
          Up(<<"loan", "eligibility", "not", "as", "per", "norms">>) \o Dash
          \o Up(<<"foir">>) \o Lo(<<"at">>) \o Num(foir, 10) \o Sym(<<"%">>),
          "High")

\* the query appended for an issue mentioning FOIR
FoirQuery(foir) ==
    Query("eligibility",
          Up(<<"loan", "eligibility", "not", "as", "per", "norms">>) \o Dash
          \o Up(<<"foir">>) \o Lo(<<"at">>) \o Num(foir, 10) \o Sym(<<"%">>)
          \o Lo(<<"exceeds">>) \o Sym(<<"60", "%", ".">>) \o Ti(<<"loan">>)
          \o Lo(<<"amount", "may", "need", "to", "be", "reduced", "or", "existing",
                  "loans", "closed">>) \o Sym(<<".">>),
          "Critical")

TenureAgeQuery ==
    Query("eligibility",
          Up(<<"loan", "term", "not", "as", "per", "norms">>) \o Dash
          \o Ti(<<"tenure">>)
          \o Lo(<<"exceeds", "maximum", "allowed", "based", "on", "applicant", "age">>)
          \o Sym(<<".">>) \o Ti(<<"confirmation">>) \o Lo(<<"required">>)
          \o Sym(<<".">>),
          "High")

\* eligibility_results.get('calculations', {}).get(key, 0)
Calculation(eligibility_results, key) ==
    Get(Get(eligibility_results, "calculations", <<>>), key, Zero)

\* the queries one issue gives: if 'FOIR' in issue, then if 'age' in issue.lower()
IssueQueries(issue, eligibility_results) ==
    (IF Contains(IssueText(issue), Up(<<"foir">>))
     THEN <<FoirQuery(Calculation(eligibility_results, "foir_with_requested_loan"))>>
     ELSE <<>>)
    \o (IF Contains(Recase(IssueText(issue), "lower"), Lo(<<"age">>))
        THEN <<TenureAgeQuery>> ELSE <<>>)

RECURSIVE AllIssueQueries(_, _)
AllIssueQueries(issues, eligibility_results) ==
    IF issues = <<>> THEN <<>>
    ELSE IssueQueries(Head(issues), eligibility_results)
         \o AllIssueQueries(Tail(issues), eligibility_results)

\* 4. if not eligibility_results.get('eligible')
EligibilityQueries(eligibility_results) ==
    IF ~Get(eligibility_results, "eligible", FALSE)
    THEN AllIssueQueries(Get(eligibility_results, "issues", <<>>), eligibility_results)
    ELSE <<>>

\* 5. current_foir > 40, then gross_income < 25000 (25 thousands)
RatioQueries(eligibility_results) ==
    LET current_foir == Calculation(eligibility_results, "current_foir_percent")
        gross_income == Calculation(eligibility_results, "gross_monthly_income")
    IN  (IF RLt(RInt(40), current_foir)
         THEN << Query("ratios",
                       Up(<<"stretched", "ratios", "not", "justified">>) \o Dash
                       \o Ti(<<"current">>) \o Up(<<"foir">>) \o Lo(<<"at">>)
                       \o Num(current_foir, 10) \o Sym(<<"%">>)
                       \o Lo(<<"indicates", "high", "existing", "obligations">>)
                       \o Sym(<<".">>) \o Ti(<<"consider">>)
                       \o Lo(<<"loan", "closure", "before", "disbursement">>)
                       \o Sym(<<".">>),
                       "High") >>
         ELSE <<>>)
        \o (IF RLt(gross_income, RInt(25))
            THEN << Query("eligibility",
                          Up(<<"other", "income", "proof">>) \o Dash
                          \o Ti(<<"gross">>) \o Lo(<<"monthly", "income">>)
                          \o Sym(<<"(">>) \o Ti(<<"rs">>) \o Num(gross_income, 1)
                          \o Sym(<<")">>)
                          \o Lo(<<"is", "below", "minimum", "threshold">>) \o Sym(<<".">>)
                          \o Ti(<<"additional">>)
                          \o Lo(<<"income", "proof", "may", "be", "required">>)
                          \o Sym(<<".">>),
                          "Medium") >>
            ELSE <<>>)

critical_fields ==
    << Ti(<<"mobile", "number">>), Ti(<<"email">>) \o Up(<<"id">>),
       Ti(<<"current", "address">>), Ti(<<"office", "address">>) >>

RECURSIVE FormFieldQueries(_)
FormFieldQueries(fields) ==
    IF fields = <<>> THEN <<>>
    ELSE (IF \E i \in 1..Len(critical_fields) : Contains(Head(fields), critical_fields[i])
          THEN << Query("verification",
                        Up(<<"form", "details", "incomplete">>) \o Dash \o Head(fields)
                        \o Lo(<<"required", "for", "processing">>),
                        "High") >>
          ELSE <<>>)
         \o FormFieldQueries(Tail(fields))

\* 6. to 8. the pending form fields, the property, the references
FormQueries(pending_forms) ==
    LET fields == Get(pending_forms, "pending_form_fields", <<>>)
    IN  FormFieldQueries(fields)
        \o (IF \E i \in 1..Len(fields) : fields[i] = Ti(<<"property", "address">>)
            THEN << Query("property",
                          Up(<<"property">>) \o Dash
                          \o Up(<<"cost", "break", "up", "sheet">>) \o Dash
                          \o Ti(<<"property">>)
                          \o Lo(<<"details", "and", "cost", "breakup", "required">>),
                          "Medium") >>
            ELSE <<>>)
        \o (IF AnyContains(fields, Ti(<<"reference">>))
            THEN << Query("verification",
                          Up(<<"reference", "details">>) \o Dash \o Ti(<<"complete">>)
                          \o Lo(<<"details", "of", "both", "references", "required">>)
                          \o Sym(<<"(">>) \o Ti(<<"name">>) \o Sym(<<",">>)
                          \o Ti(<<"mobile">>) \o Sym(<<",">>) \o Ti(<<"email">>)
                          \o Sym(<<",">>) \o Ti(<<"address">>) \o Sym(<<")">>),
                          "Low") >>
            ELSE <<>>)

\* float(avg_balance or 0) inside try/except: a balance is [kind |->
\* "none"], [kind |-> "number", value], [kind |-> "numeral", value] (a str
\* float() reads) or [kind |-> "words"] (a str it does not)
AsFloat(avg_balance) ==
    IF avg_balance.kind \in {"number", "numeral"} THEN avg_balance.value ELSE Zero

\* 9. avg_balance < 10000 (10 thousands)
BankingQueries(analysis_results) ==
    LET avg_balance == AsFloat(Get(analysis_results, "average_bank_balance",
                                   [kind |-> "none"]))
    IN  IF RLt(avg_balance, RInt(10))
        THEN << Query("ratios",
                      Up(<<"bank", "balances", "not", "as", "per", "norms">>) \o Dash
                      \o Ti(<<"low">>) \o Lo(<<"average", "balance">>) \o Sym(<<"(">>)
                      \o Ti(<<"rs">>) \o Num(avg_balance, 1) \o Sym(<<")">>)
                      \o Lo(<<"observed">>) \o Sym(<<".">>) \o Ti(<<"better">>)
                      \o Lo(<<"banking", "required">>) \o Sym(<<".">>),
                      "Medium") >>
        ELSE <<>>

\* 10. fewer than 3 salary slips
SalarySlipQueries(analysis_results) ==
    LET count == Get(analysis_results, "salary_slips_count", 0)
    IN  IF count < 3
        THEN << Query("documents",
                      Up(<<"salary", "slip">>) \o Dash \o Num(RInt(3 - count), 1)
                      \o Lo(<<"additional", "month">>) \o Sym(<<"(">>) \o Lo(<<"s">>)
                      \o Sym(<<")">>) \o Lo(<<"salary", "slip", "required">>)
                      \o Sym(<<"(">>) \o Lo(<<"total">>) \o Sym(<<"3">>)
                      \o Lo(<<"months", "needed">>) \o Sym(<<")">>),
                      "High") >>
        ELSE <<>>

\* the list queries before it is sorted
GeneratedQueries(analysis_results, eligibility_results, pending_docs, pending_forms) ==
    DocumentQueries(pending_docs)
    \o EmploymentQueries(analysis_results)
    \o OfficeAddressQueries(pending_forms)
    \o ObligationQueries(analysis_results)
    \o EligibilityQueries(eligibility_results)
    \o RatioQueries(eligibility_results)
    \o FormQueries(pending_forms)
    \o BankingQueries(analysis_results)
    \o SalarySlipQueries(analysis_results)

\* priority_order.get(x['priority'], 4)
priority_order(priority) ==
    CASE priority = "Critical" -> 0
      [] priority = "High"     -> 1
      [] priority = "Medium"   -> 2
      [] priority = "Low"      -> 3
      [] OTHER                 -> 4

StaysAheadOnlyIfLess(e, q) == priority_order(e.priority) < priority_order(q.priority)

\* list.sort is stable: an element already placed stays ahead of a later
\* one whose key is not less
StaysAhead(e, q) == priority_order(e.priority) <= priority_order(q.priority)

\* q put into the sorted list after every element that stays ahead of it
RECURSIVE InsertSorted(_, _)
InsertSorted(q, sorted) ==
    IF sorted = <<>> THEN <<q>>
    ELSE IF StaysAhead(Head(sorted), q)
    THEN <<Head(sorted)>> \o InsertSorted(q, Tail(sorted))
    ELSE <<q>> \o sorted

\* queries.sort(key=...): the first k elements of queries, sorted
RECURSIVE SortedUpTo(_, _)
SortedUpTo(queries, k) ==
    IF k = 0 THEN <<>>
    ELSE InsertSorted(queries[k], SortedUpTo(queries, k - 1))

sort(queries) == SortedUpTo(queries, Len(queries))

\* generate_queries; g is the record of the four arguments
generate_queries(g) ==
    sort(GeneratedQueries(g.analysis_results, g.eligibility_results,
                          g.pending_docs, g.pending_forms))

\* format_queries_for_report: the sentence for no query, or the numbered
\* texts
format_queries_for_report(queries) ==
    IF queries = <<>>
    THEN Ti(<<"no">>) \o Lo(<<"queries", "identified">>) \o Sym(<<".">>)
         \o Ti(<<"file">>) \o Lo(<<"appears", "complete", "for", "processing">>)
         \o Sym(<<".">>)
    ELSE [i \in 1..Len(queries) |->
            Num(RInt(i), 1) \o Sym(<<".">>) \o queries[i].query]

----------------------------------------------------------------------------
(* DocumentValidator *)

\* d[key] = value on a dict
SetItem(d, key, value) ==
    [k \in DOMAIN d \cup {key} |-> IF k = key THEN value ELSE d[k]]

\* not d.get(key), for a key holding a str or None
Unset(d, key) == key \notin DOMAIN d \/ d[key] = None \/ d[key] = Some("")

\* MANDATORY_DOCUMENTS
AadharDoc == Ti(<<"aadhar", "card">>)

PanDoc == Up(<<"pan">>) \o Ti(<<"card">>)

SalaryDoc == Ti(<<"latest">>) \o Sym(<<"3">>) \o Ti(<<"months", "salary", "slip">>)
             \o Lo(<<"s">>)

Form16Doc ==
    Ti(<<"form">>) \o Sym(<<"16", "(">>) \o Lo(<<"with">>) \o Ti(<<"part">>)
    \o Up(<<"a">>) \o Lo(<<"and">>) \o Ti(<<"part">>) \o Up(<<"b">>) \o Sym(<<")">>)

BankDoc == Sym(<<"6">>) \o Ti(<<"months", "bank", "statement">>)

Uploaded(doc_name) == doc_name \o Dash \o Ti(<<"uploaded">>)

\* check_pending_documents: the entries for aadhar, pan, salary_slips,
\* form16 and bank_statement in that order; each is [pending, uploaded]
MandatoryEntries(uploaded_docs, analyzed_results) ==
    LET count         == uploaded_docs.salary_slips
        bank_data     == Get(analyzed_results, "bank_statement", EmptyStatement)
        period_months == Get(bank_data, "statement_period_months", 0)
        plain(flag, doc_name) ==
            IF ~flag THEN [pending |-> <<doc_name>>, uploaded |-> <<>>]
            ELSE [pending |-> <<>>, uploaded |-> <<Uploaded(doc_name)>>]
    IN  << plain(uploaded_docs.aadhar, AadharDoc),
           plain(uploaded_docs.pan, PanDoc),
           IF count < 3
           THEN [ pending |-> << SalaryDoc \o Dash \o Ti(<<"found">>)
                                 \o Num(RInt(count), 1) \o Sym(<<"/", "3">>)
                                 \o Lo(<<"required">>) >>,
                  uploaded |-> <<>> ]
           ELSE [ pending |-> <<>>,
                  uploaded |-> << SalaryDoc \o Dash \o Ti(<<"complete">>) \o Sym(<<"(">>)
                                  \o Num(RInt(count), 1) \o Lo(<<"slips">>)
                                  \o Sym(<<")">>) >> ],
           plain(uploaded_docs.form16, Form16Doc),
           IF ~uploaded_docs.bank_statement
           THEN [pending |-> <<BankDoc>>, uploaded |-> <<>>]
           ELSE IF period_months < 6
           THEN [ pending |-> << BankDoc \o Dash \o Ti(<<"only">>)
                                 \o Num(RInt(period_months), 1)
                                 \o Lo(<<"months", "found">>) \o Sym(<<"(", "6">>)
                                 \o Lo(<<"months", "required">>) \o Sym(<<")">>) >>,
                  uploaded |-> <<>> ]
           ELSE [ pending |-> <<>>,
                  uploaded |-> << BankDoc \o Dash \o Ti(<<"complete">>) \o Sym(<<"(">>)
                                  \o Num(RInt(period_months), 1) \o Lo(<<"months">>)
                                  \o Sym(<<")">>) >> ] >>

\* the entries of one kind, in order
RECURSIVE Gathered(_, _)
Gathered(entries, part) ==
    IF entries = <<>> THEN <<>>
    ELSE Head(entries)[part] \o Gathered(Tail(entries), part)

\* check_pending_documents (without uploaded_documents_details, which
\* repeats uploaded_documents)
check_pending_documents(uploaded_docs, analyzed_results) ==
    LET entries == MandatoryEntries(uploaded_docs, analyzed_results)
    IN  [ pending_documents     |-> Gathered(entries, "pending"),
          uploaded_documents    |-> Gathered(entries, "uploaded"),
          completion_percentage |->
              RoundPlaces(RMul(Rat(Len(Gathered(entries, "uploaded")), 5), RInt(100)),
                          10) ]

\* the entry check_conditional_documents adds for an obligation
LoanSoaDoc(emi) ==
    Ti(<<"loan", "statement">>) \o Sym(<<"/">>) \o Up(<<"soa">>) \o Lo(<<"for">>)
    \o Recase(StrTokens(OrUnknown(emi, "loan_type")), "title")
    \o Lo(<<"loan", "with">>)
    \o (IF "lender" \in DOMAIN emi THEN StrTokens(emi.lender)
        ELSE Ti(<<"unknown", "lender">>))

\* check_conditional_documents(uploaded_docs, {}, emis_list): conditions is
\* empty, so only the obligations without a loan document give entries
RECURSIVE check_conditional_documents(_)
check_conditional_documents(emis_list) ==
    IF emis_list = <<>> THEN <<>>
    ELSE (IF ~Get(Head(emis_list), "has_loan_document", FALSE)
          THEN <<LoanSoaDoc(Head(emis_list))>> ELSE <<>>)
         \o check_conditional_documents(Tail(emis_list))

\* REQUIRED_FORM_FIELDS in the order of the dict
REQUIRED_FORM_FIELDS ==
    << [key |-> "applicant_name",       name |-> Ti(<<"applicant", "name">>)],
       [key |-> "spouse_name",          name |-> Ti(<<"applicant", "spouse", "name">>)],
       [key |-> "mother_name",          name |-> Ti(<<"mother", "name">>)],
       [key |-> "current_address",      name |-> Ti(<<"current", "address">>)],
       [key |-> "mobile_no",            name |-> Ti(<<"mobile", "number">>)],
       [key |-> "email_id",             name |-> Ti(<<"email">>) \o Up(<<"id">>)],
       [key |-> "children",             name |-> Ti(<<"children", "details">>)],
       [key |-> "qualification",        name |-> Ti(<<"qualification">>)],
       [key |-> "office_address",       name |-> Ti(<<"office", "address">>)],
       [key |-> "office_landline",      name |-> Ti(<<"office", "landline", "number">>)],
       [key |-> "official_email",       name |-> Ti(<<"official", "email">>) \o Up(<<"id">>)],
       [key |-> "job_since",            name |-> Ti(<<"job", "since">>) \o Sym(<<"(">>)
                                                 \o Ti(<<"date">>) \o Sym(<<")">>)],
       [key |-> "total_experience",     name |-> Ti(<<"total", "experience">>)],
       [key |-> "department",           name |-> Ti(<<"department">>)],
       [key |-> "designation",          name |-> Ti(<<"designation">>)],
       [key |-> "loan_amount",          name |-> Ti(<<"loan", "amount", "requested">>)],
       [key |-> "tenure",               name |-> Ti(<<"loan", "tenure">>)],
       [key |-> "investment_details",   name |-> Ti(<<"investment", "details">>)],
       [key |-> "property_address",     name |-> Ti(<<"property", "address">>)],
       [key |-> "property_type",        name |-> Ti(<<"property", "type">>) \o Sym(<<"(">>)
                                                 \o Ti(<<"builder">>) \o Sym(<<"/">>)
                                                 \o Ti(<<"resale">>) \o Sym(<<")">>)],
       [key |-> "property_pincode",     name |-> Ti(<<"property", "pincode">>)],
       [key |-> "property_carpet_area", name |-> Ti(<<"property", "carpet", "area">>)],
       [key |-> "saledeed_amount",      name |-> Ti(<<"sale", "deed", "amount">>)],
       [key |-> "reference1_name",      name |-> Ti(<<"reference">>) \o Sym(<<"1", "-">>)
                                                 \o Ti(<<"name">>)],
       [key |-> "reference1_mobile",    name |-> Ti(<<"reference">>) \o Sym(<<"1", "-">>)
                                                 \o Ti(<<"mobile">>)],
       [key |-> "reference1_email",     name |-> Ti(<<"reference">>) \o Sym(<<"1", "-">>)
                                                 \o Ti(<<"email">>)],
       [key |-> "reference1_address",   name |-> Ti(<<"reference">>) \o Sym(<<"1", "-">>)
                                                 \o Ti(<<"address">>)],
       [key |-> "reference2_name",      name |-> Ti(<<"reference">>) \o Sym(<<"2", "-">>)
                                                 \o Ti(<<"name">>)],
       [key |-> "reference2_mobile",    name |-> Ti(<<"reference">>) \o Sym(<<"2", "-">>)
                                                 \o Ti(<<"mobile">>)],
       [key |-> "reference2_email",     name |-> Ti(<<"reference">>) \o Sym(<<"2", "-">>)
                                                 \o Ti(<<"email">>)],
       [key |-> "reference2_address",   name |-> Ti(<<"reference">>) \o Sym(<<"2", "-">>)
                                                 \o Ti(<<"address">>)] >>

\* the keys of a form that hold a number, not a str
NumberFields == {"loan_amount", "tenure"}

\* not value or value == "" or value == "Not found" or value == "N/A"
FieldPending(extracted_data, field_key) ==
    IF field_key \notin DOMAIN extracted_data THEN TRUE
    ELSE IF field_key \in NumberFields THEN extracted_data[field_key] = 0
    ELSE extracted_data[field_key] \in {None, Some(""), Some("Not found"), Some("N/A")}

check_pending_form_details(extracted_data) ==
    LET fields  == REQUIRED_FORM_FIELDS
        pending == SelectSeq(fields, LAMBDA f : FieldPending(extracted_data, f.key))
        filled  == SelectSeq(fields, LAMBDA f : ~FieldPending(extracted_data, f.key))
    IN  [ pending_form_fields   |-> [i \in 1..Len(pending) |-> pending[i].name],
          filled_form_fields    |->
              [i \in 1..Len(filled) |-> filled[i].name \o Dash \o Ti(<<"filled">>)],
          completion_percentage |->
              RoundPlaces(RMul(Rat(Len(filled), Len(fields)), RInt(100)), 10) ]

\* x or {} for a document that is None or [the dict]
OrEmpty(doc) == IF doc = None THEN EmptyStatement ELSE doc[1]

\* if not form_data.get('applicant_name'): form_data['applicant_name'] = ...
NameIfUnset(form_data, doc, from) ==
    IF Unset(form_data, "applicant_name")
    THEN SetItem(form_data, "applicant_name", Get(doc, from, Some("")))
    ELSE form_data

\* extract_form_data_from_documents: salary_slips, pan, aadhar and form16
\* are always keys of all_analyzed_docs, bank_statement may be absent
extract_form_data_from_documents(all_analyzed_docs) ==
    LET latest_slip == all_analyzed_docs.salary_slips[1]
        from_slip ==
            IF Len(all_analyzed_docs.salary_slips) > 0
            THEN [ applicant_name |-> Get(latest_slip, "employee_name", Some("")),
                   designation    |-> Get(latest_slip, "designation", Some("")),
                   department     |-> Get(latest_slip, "department", Some("")),
                   office_address |-> Get(latest_slip, "employer", Some("")) ]
            ELSE EmptyStatement
        pan_data    == OrEmpty(all_analyzed_docs.pan)
        from_pan    == SetItem(NameIfUnset(from_slip, pan_data, "name"),
                               "mother_name", Get(pan_data, "father_name", Some("")))
        aadhar_data == OrEmpty(all_analyzed_docs.aadhar)
        from_aadhar == SetItem(NameIfUnset(from_pan, aadhar_data, "name"),
                               "current_address", Get(aadhar_data, "address", Some("")))
        from_form16 == NameIfUnset(from_aadhar, OrEmpty(all_analyzed_docs.form16),
                                   "employee_name")
    IN  IF "bank_statement" \in DOMAIN all_analyzed_docs
        THEN NameIfUnset(from_form16, all_analyzed_docs.bank_statement, "account_holder")
        ELSE from_form16

----------------------------------------------------------------------------
(* The application (app.py).  An uploaded file is what DocumentAnalyzer    *)
(* returns for it: [identified, extracted], the dict of                    *)
(* identify_document_type and the dict of the analyze_* method its type    *)
(* selects; a dict with the key "error" is a failure marker.  A field of   *)
(* an extracted dict or of applicant_info that holds a str is None (JSON   *)
(* null) or Some(s).                                                       *)

IsError(result) == "error" \in DOMAIN result

\* if not applicant_info.get(key): applicant_info[key] = result.get(from, 'N/A')
SetIfUnset(applicant_info, key, result, from) ==
    IF Unset(applicant_info, key)
    THEN SetItem(applicant_info, key, Get(result, from, Some("N/A")))
    ELSE applicant_info

\* validate_pan_format: None for nothing, the mask for 10 characters
validate_pan_format(pan_number) ==
    IF pan_number = None \/ pan_number = Some("") THEN None
    ELSE IF pan_number = Some("ABCDE1234F") THEN Some("XXXXXX234F")
    ELSE IF pan_number = Some("PQRST5678K") THEN Some("XXXXXX678K")
    ELSE pan_number

\* validate_aadhar_format: None for nothing, the mask for 12 digits
validate_aadhar_format(aadhar_number) ==
    IF aadhar_number = None \/ aadhar_number = Some("") THEN None
    ELSE IF aadhar_number = Some("1234 5678 9012") THEN Some("XXXX XXXX 9012")
    ELSE aadhar_number

\* categorized and applicant_info before the loop over the files
AnalysisStart(requested_amount, interest_rate) ==
    [ categorized |->
        [ salary_slips |-> <<>>, bank_statements |-> <<>>, pan |-> None,
          aadhar |-> None, form16 |-> None, loan_statements |-> <<>>, other |-> <<>> ],
      applicant_info |->
        [ loan_amount |-> requested_amount, interest_rate |-> interest_rate ] ]

\* the body of the loop over uploaded_files for one file: a is
\* [categorized, applicant_info]
ProcessDocument(a, file) ==
    LET doc_type == Get(file.identified, "document_type", "other")
        result   == file.extracted
        cat      == a.categorized
        info     == a.applicant_info
    IN  IF IsError(file.identified) THEN a
        ELSE IF doc_type = "salary_slip" THEN
            IF IsError(result) THEN a
            ELSE [ categorized |->
                     [cat EXCEPT !.salary_slips = Append(@, result)],
                   applicant_info |->
                     SetIfUnset(SetIfUnset(SetIfUnset(info, "employer", result, "employer"),
                                           "designation", result, "designation"),
                                "department", result, "department") ]
        ELSE IF doc_type = "bank_statement" THEN
            IF IsError(result) THEN a
            ELSE [a EXCEPT !.categorized.bank_statements = Append(@, result)]
        ELSE IF doc_type = "pan_card" THEN
            [ categorized |-> [cat EXCEPT !.pan = Some(result)],
              applicant_info |->
                IF IsError(result) THEN info
                ELSE SetIfUnset(SetItem(info, "pan_masked",
                                        validate_pan_format(Get(result, "pan_number", None))),
                                "applicant_name", result, "name") ]
        ELSE IF doc_type = "aadhar_card" THEN
            [ categorized |-> [cat EXCEPT !.aadhar = Some(result)],
              applicant_info |->
                IF IsError(result) THEN info
                ELSE SetItem(
                       SetItem(
                         SetIfUnset(
                           SetItem(info, "aadhar_masked",
                                   validate_aadhar_format(Get(result, "aadhar_number", None))),
                           "applicant_name", result, "name"),
                         "date_of_birth", Get(result, "date_of_birth", None)),
                       "current_address", Get(result, "address", Some("N/A"))) ]
        ELSE IF doc_type = "form16" THEN
            [ categorized |-> [cat EXCEPT !.form16 = Some(result)],
              applicant_info |->
                IF IsError(result) THEN info
                ELSE SetIfUnset(info, "employer", result, "employer") ]
        ELSE IF doc_type = "loan_statement" THEN
            IF IsError(result) THEN a
            ELSE [a EXCEPT !.categorized.loan_statements = Append(@, result)]
        ELSE [a EXCEPT !.categorized.other = Append(@, result)]

\* categorized and applicant_info after the first k files
RECURSIVE ProcessedUpTo(_, _, _, _)
ProcessedUpTo(uploaded_files, k, requested_amount, interest_rate) ==
    IF k = 0 THEN AnalysisStart(requested_amount, interest_rate)
    ELSE ProcessDocument(ProcessedUpTo(uploaded_files, k - 1, requested_amount,
                                       interest_rate),
                         uploaded_files[k])

\* emi.get('lender'), loan_stmt.get('lender'): None for no key
LenderOf(d) == IF "lender" \in DOMAIN d THEN Some(d.lender) ELSE None

\* the loop over loan_statements and all_emis: an obligation whose lender
\* is the lender of a loan statement gets has_loan_document
Corroborated(emi, loan_statements) ==
    IF \E i \in 1..Len(loan_statements) : LenderOf(emi) = LenderOf(loan_statements[i])
    THEN SetItem(emi, "has_loan_document", TRUE)
    ELSE emi

\* a bank statement after that loop: the obligations in all_emis are the
\* dicts of its list emis_found
StatementCorroborated(stmt, loan_statements) ==
    IF "emis_found" \in DOMAIN stmt
    THEN [stmt EXCEPT !.emis_found =
            [i \in 1..Len(@) |-> Corroborated(@[i], loan_statements)]]
    ELSE stmt

\* all_emis.extend(emis_found) for each statement
RECURSIVE AllEmis(_)
AllEmis(bank_statements) ==
    IF bank_statements = <<>> THEN <<>>
    ELSE Get(Head(bank_statements), "emis_found", <<>>) \o AllEmis(Tail(bank_statements))

\* the arguments of a call made by the application
EligibilityCall(applicant_info, salary_slips, all_emis, amount, rate, excluded_emis) ==
    [ applicant_data |-> applicant_info, salary_slips |-> salary_slips,
      emis_list |-> all_emis, requested_loan_amount |-> amount,
      requested_tenure_years |-> None, interest_rate |-> rate,
      excluded_emis |-> { excluded_emis[i] : i \in 1..Len(excluded_emis) } ]

\* for key, value in form_data.items(): if key not in applicant_info or
\* not applicant_info.get(key): applicant_info[key] = value
FormDataMerged(applicant_info, form_data) ==
    [ key \in DOMAIN applicant_info \cup DOMAIN form_data |->
        IF key \in DOMAIN form_data /\ Unset(applicant_info, key)
        THEN form_data[key] ELSE applicant_info[key] ]

\* bank_statement_data.get('average_balance', 0) if bank_statement_data else 0
AverageBalance(bank_statement_data) ==
    IF bank_statement_data = None THEN [kind |-> "number", value |-> Zero]
    ELSE Get(bank_statement_data[1], "average_balance", [kind |-> "number", value |-> Zero])

\* Op applied to the value of v, which is worked out once
Let(v, Op(_)) == CHOOSE r \in { Op(x) : x \in {v} } : TRUE

\* lines 342-372 of analyze_all_documents, for categorized and
\* applicant_info as the loop over the files left them
Collected(a, loan_calc, now) ==
    LET statements == [i \in 1..Len(a.categorized.bank_statements) |->
                         StatementCorroborated(a.categorized.bank_statements[i],
                                               a.categorized.loan_statements)]
        with_age   ==
            IF Get(a.applicant_info, "date_of_birth", None) # None
            THEN SetItem(a.applicant_info, "current_age",
                         calculate_age(a.applicant_info.date_of_birth, now))
            ELSE a.applicant_info
        auto_tenure ==
            calculate_auto_tenure(loan_calc, Get(with_age, "current_age", Some(30)))
    IN  [ categorized  |-> [a.categorized EXCEPT !.bank_statements = statements],
          all_emis     |-> AllEmis(statements),
          bank_statement_data |-> IF statements = <<>> THEN None ELSE Some(statements[1]),
          all_analyzed |->
            [ salary_slips |-> a.categorized.salary_slips, pan |-> a.categorized.pan,
              aadhar |-> a.categorized.aadhar, form16 |-> a.categorized.form16 ]
            @@ (IF statements = <<>> THEN EmptyStatement
                ELSE [bank_statement |-> statements[1]]),
          applicant_info |-> SetItem(with_age, "tenure", auto_tenure) ]

\* lines 387-405: pending_docs, applicant_info after the merge of
\* form_data, pending_forms
Validated(c) ==
    LET categorized == c.categorized
        uploaded_docs ==
            [ aadhar         |-> categorized.aadhar # None,
              pan            |-> categorized.pan # None,
              salary_slips   |-> Len(categorized.salary_slips),
              form16         |-> categorized.form16 # None,
              bank_statement |-> Len(categorized.bank_statements) > 0 ]
    IN  Let(FormDataMerged(c.applicant_info,
                           extract_form_data_from_documents(c.all_analyzed)),
            LAMBDA applicant_info :
              [ pending_docs   |->
                  Let(check_pending_documents(uploaded_docs, c.all_analyzed),
                      LAMBDA checked :
                        [checked EXCEPT !.pending_documents =
                           @ \o check_conditional_documents(c.all_emis)]),
                applicant_info |-> applicant_info,
                pending_forms  |-> check_pending_form_details(applicant_info) ])

\* query_gen.generate_queries(...) and format_queries_for_report(queries)
FormattedQueries(all_emis, salary_slips, average_bank_balance, eligibility, v) ==
    format_queries_for_report(
        generate_queries(
            [ analysis_results |->
                [ emis_found |-> all_emis,
                  salary_slips_count |-> Len(salary_slips),
                  job_since_years |-> 2,
                  average_bank_balance |-> average_bank_balance ],
              eligibility_results |-> eligibility,
              pending_docs        |-> v.pending_docs,
              pending_forms       |-> v.pending_forms ]))

\* lines 410-440: the dict assigned to st.session_state.analyzed_data
AnalyzedData(c, eligibility, v) ==
    [ applicant_info  |-> v.applicant_info,
      salary_analysis |-> [salary_slips |-> c.categorized.salary_slips],
      eligibility     |-> eligibility,
      obligations     |-> eligibility.calculations.emi_details,
      pending_docs    |-> v.pending_docs,
      pending_forms   |-> v.pending_forms,
      queries         |-> FormattedQueries(c.all_emis, c.categorized.salary_slips,
                                           AverageBalance(c.bank_statement_data),
                                           eligibility, v),
      all_analyzed    |-> c.all_analyzed,
      categorized     |-> c.categorized,
      bank_statement_data |-> c.bank_statement_data ]

\* analyze_all_documents after the loop over the files, for categorized
\* and applicant_info as the loop left them: [status |-> "stored",
\* analyzed_data], or [status |-> "raised"] where the except clause ends
\* the run
AnalysisOf(a, session, requested_amount, interest_rate, now) ==
    Let(Collected(a, Init__(session.loan_config), now), LAMBDA c :
      Let(calculate_eligibility(
              Init__(session.loan_config), now,
              EligibilityCall(c.applicant_info, c.categorized.salary_slips, c.all_emis,
                              requested_amount, interest_rate, session.excluded_emis)),
          LAMBDA eligibility :
            IF eligibility.status = "raised" THEN [status |-> "raised"]
            ELSE Let(Validated(c), LAMBDA v :
                   [ status |-> "stored",
                     analyzed_data |-> AnalyzedData(c, eligibility.result, v) ])))

EmiOfDetail_Uncorroborated(obl) ==
    [ lender |-> obl.lender, emi_amount |-> obl.amount, loan_type |-> obl.type,
      has_loan_document |-> FALSE ]

\* the obligation recalculate_eligibility rebuilds from a stored detail
EmiOfDetail(obl) ==
    [ lender |-> obl.lender, emi_amount |-> obl.amount, loan_type |-> obl.type,
      has_loan_document |-> Get(obl, "has_loan_document", FALSE) ]

\* lines 461-477 of recalculate_eligibility: applicant_info, all_emis
Recollected(stored, loan_calc, requested_amount, interest_rate) ==
    LET with_amounts == SetItem(SetItem(stored.applicant_info, "loan_amount",
                                        requested_amount),
                                "interest_rate", interest_rate)
        auto_tenure  ==
            calculate_auto_tenure(loan_calc, Get(with_amounts, "current_age", Some(30)))
    IN  [ applicant_info |-> SetItem(with_amounts, "tenure", auto_tenure),
          all_emis       |-> [i \in 1..Len(stored.obligations) |->
                                EmiOfDetail(stored.obligations[i])] ]

recalculate_eligibility_Eager(session, requested_amount, interest_rate, now) ==
    Let(session.analyzed_data[1], LAMBDA stored :
      Let(Recollected(stored, Init__(session.loan_config), requested_amount,
                      interest_rate),
          LAMBDA c :
      Let(calculate_eligibility(
              Init__(session.loan_config), now,
              EligibilityCall(c.applicant_info, stored.salary_analysis.salary_slips,
                              c.all_emis, requested_amount, interest_rate,
                              session.excluded_emis)),
          LAMBDA eligibility :
            IF eligibility.status = "raised"
            THEN [session EXCEPT !.analyzed_data = Some(
                   [stored EXCEPT !.applicant_info = c.applicant_info])]
            ELSE IF stored.bank_statement_data = None
            THEN [session EXCEPT !.analyzed_data = Some(
                   [stored EXCEPT
                      !.eligibility    = eligibility.result,
                      !.applicant_info = c.applicant_info,
                      !.obligations    = eligibility.result.calculations.emi_details ])]
            ELSE [session EXCEPT !.analyzed_data = Some(
                   [stored EXCEPT
                      !.eligibility    = eligibility.result,
                      !.applicant_info = c.applicant_info,
                      !.obligations    = eligibility.result.calculations.emi_details,
                      !.queries        =
                         FormattedQueries(
                             c.all_emis, stored.salary_analysis.salary_slips,
                             Get(stored.bank_statement_data[1], "average_balance",
                                 [kind |-> "number", value |-> Zero]),
                             eligibility.result, stored) ])])))

\* recalculate_eligibility(requested_amount, interest_rate) on a session
\* holding an analysis: the session afterwards.  A stored
\* bank_statement_data of None has no .get, and any exception ends in the
\* except clause with the session as it was.
recalculate_eligibility(session, requested_amount, interest_rate, now) ==
    Let(session.analyzed_data[1], LAMBDA stored :
      Let(Recollected(stored, Init__(session.loan_config), requested_amount,
                      interest_rate),
          LAMBDA c :
      Let(calculate_eligibility(
              Init__(session.loan_config), now,
              EligibilityCall(c.applicant_info, stored.salary_analysis.salary_slips,
                              c.all_emis, requested_amount, interest_rate,
                              session.excluded_emis)),
          LAMBDA eligibility :
            IF eligibility.status = "raised" \/ stored.bank_statement_data = None
            THEN session
            ELSE [session EXCEPT !.analyzed_data = Some(
                   [stored EXCEPT
                      !.eligibility    = eligibility.result,
                      !.applicant_info = c.applicant_info,
                      !.obligations    = eligibility.result.calculations.emi_details,
                      !.queries        =
                         FormattedQueries(
                             c.all_emis, stored.salary_analysis.salary_slips,
                             Get(stored.bank_statement_data[1], "average_balance",
                                 [kind |-> "number", value |-> Zero]),
                             eligibility.result, stored) ])])))

----------------------------------------------------------------------------
(* The inputs the model draws from *)

\* longest obligation list
MaxEmis == 2

\* the exact powers (1 + r) ** n are formed for n up to this many months
MaxExactMonths == 12

EmptyDict == [k \in {} |-> 0]

Todays == { [year |-> 2026, month |-> 6, day |-> 15] }

Text(sep, a, b, c) == [sep |-> sep, a |-> a, b |-> b, c |-> c]

\* "15/06/1996" (30 today), "1967-12-25" (58), "20-06-1966" (59, birthday
\* ahead), "01.01.1966" (60); no date of birth; "31/02/1990", which is no
\* date, with an age of 45; "N/A" with an age of 61; a null date of birth
Applicants ==
    { [date_of_birth |-> Some(Text("/", 15, 6, 1996))],
      [date_of_birth |-> Some(Text("-", 1967, 12, 25))],
      [date_of_birth |-> Some(Text("-", 20, 6, 1966))],
      [date_of_birth |-> Some(Text(".", 1, 1, 1966))],
      EmptyDict,
      [date_of_birth |-> Some(Text("/", 31, 2, 1990)), age |-> 45],
      [date_of_birth |-> Some(Text("N/A", 0, 0, 0)), age |-> 61],
      [date_of_birth |-> None] }

Slip1 == [month |-> "Apr", earnings |-> [basic |-> 60, hra |-> 40]]

Slip2 == [month |-> "May",
          earnings |-> [basic |-> 60, hra |-> 30, bonus |-> 24, incentive |-> 12]]

SalaryLists == { <<>>, <<Slip1>>, <<Slip2>>, <<Slip1, Slip2>> }

\* a slip whose variable pay of 4 counts as 4 / 12
Slip3 == [month |-> "Jun", earnings |-> [basic |-> 50, overtime |-> 4]]

\* an income at the default minimum of 25, and one below it
SlipAtMinimum == [month |-> "Jul", earnings |-> [basic |-> 25]]

SlipLow == [month |-> "Aug", earnings |-> [basic |-> 20]]

Emi1 == [lender |-> "HDFC", emi_amount |-> 10, loan_type |-> "home",
         has_loan_document |-> TRUE]

Emi2 == [lender |-> "SBI", emi_amount |-> 5, loan_type |-> "credit card"]

EmiLists == UNION { [1..n -> {Emi1, Emi2}] : n \in 0..MaxEmis }

\* Emi1, Emi2, Emi1, ... of the greatest length
LongEmiList == [i \in 1..MaxEmis |-> IF i % 2 = 1 THEN Emi1 ELSE Emi2]

Amounts == {0, 40, 600}

Tenures == {None, Some(0), Some(1), Some(10)}

Rates == {Zero, RInt(1200)}

\* st.session_state.loan_config as the application holds it, with a
\* tenure ceiling of 2 years
AppConfig ==
    [foir_salaried |-> RInt(60), max_age_salaried |-> 60, max_tenure_years |-> 2,
     min_income_threshold |-> 25, high_foir_threshold |-> RInt(40)]

ConfigInputs == { EmptyDict, AppConfig }

UpdateInputs == { [max_tenure_years |-> 1], [foir_salaried |-> Rat(1, 2)] }

\* the keys of a configuration dict that hold a ratio
RatioKeys == { "foir_salaried", "high_foir_threshold", "foir_self_employed" }

\* ratios as a caller may write them: fractions 0, 0.5 and 1; the
\* percentages 1.5, 60 and 100; and 150
RatioValues == { Zero, Rat(1, 2), RInt(1), Rat(3, 2), RInt(60), RInt(100), RInt(150) }

\* no key, one ratio key, or all three
RatioConfigs ==
    { EmptyDict }
    \cup { [k \in {key} |-> v] : key \in RatioKeys, v \in RatioValues }
    \cup { [k \in RatioKeys |-> v] : v \in RatioValues }

ArgsOver(applicants, salaryLists, emiLists, amounts, tenures, rates) ==
    UNION { { [ applicant_data |-> ad, salary_slips |-> ss, emis_list |-> el,
                requested_loan_amount |-> p, requested_tenure_years |-> t,
                interest_rate |-> r, excluded_emis |-> ex ] :
              ad \in applicants, ss \in salaryLists, p \in amounts, t \in tenures,
              r \in rates, ex \in SUBSET (0..(Len(el) - 1)) } : el \in emiLists }

\* every applicant with every tenure request, over short lists; every
\* salary list with every obligation list and exclusion set, for two
\* applicants; and incomes that are no multiple of 0.01, at the minimum
\* income and below it, at rate 0
CallInputs ==
    ArgsOver(Applicants, {<<>>, <<Slip1>>}, {<<>>, <<Emi1>>}, Amounts, Tenures, Rates)
    \cup ArgsOver({ [date_of_birth |-> Some(Text("/", 15, 6, 1996))], EmptyDict },
                  SalaryLists, EmiLists, Amounts, {None}, Rates)
    \cup ArgsOver({ [date_of_birth |-> Some(Text("/", 15, 6, 1996))] },
                  { <<Slip3>>, <<Slip3, Slip1, Slip2>>, <<SlipAtMinimum>>, <<SlipLow>> },
                  { <<>>, <<Emi1>>, <<Emi1, Emi2>> }, {40}, {None, Some(1)}, {Zero})

HistInputs ==
    ArgsOver({ [date_of_birth |-> Some(Text("/", 15, 6, 1996))],
               [date_of_birth |-> Some(Text("-", 20, 6, 1966))] },
             { <<>>, <<Slip1>> }, {LongEmiList}, {40, 600}, {None}, Rates)

\* an obligation without a loan type and without a corroboration flag
Emi3 == [lender |-> "ICICI", emi_amount |-> 7]

\* obligation lists as generate_queries is given them
QueryEmiLists == UNION { [1..n -> {Emi1, Emi2, Emi3}] : n \in 0..MaxEmis }

\* the salary-slip entry DocumentValidator puts in pending_documents
SalaryShortage(count) ==
    SalaryDoc \o Dash \o Ti(<<"found">>) \o Num(RInt(count), 1)
    \o Sym(<<"/", "3">>) \o Lo(<<"required">>)

PendingDocLists ==
    { <<>>,
      <<SalaryShortage(1)>>,
      <<PanDoc, SalaryShortage(0), Form16Doc, BankDoc>>,
      <<Form16Doc, LoanSoaDoc(Emi2)>> }

\* labels of DocumentValidator.REQUIRED_FORM_FIELDS
PendingFieldLists ==
    { <<>>,
      << Ti(<<"office", "address">>) >>,
      << Ti(<<"mobile", "number">>), Ti(<<"qualification">>),
         Ti(<<"property", "address">>),
         Ti(<<"reference">>) \o Sym(<<"1", "-">>) \o Ti(<<"name">>),
         Ti(<<"reference">>) \o Sym(<<"2", "-">>) \o Ti(<<"name">>) >>,
      << Ti(<<"official", "email">>) \o Up(<<"id">>), Ti(<<"property", "type">>) >> }

\* the label "Reference n - Part" of REQUIRED_FORM_FIELDS
ReferenceField(n, part) == Ti(<<"reference">>) \o Sym(<<n, "-">>) \o Ti(<<part>>)

\* one reference field pending among others, and all eight
ReferenceFieldLists ==
    { << Ti(<<"qualification">>), ReferenceField("2", "mobile") >>,
      << ReferenceField("1", "name"), ReferenceField("1", "mobile"),
         ReferenceField("1", "email"), ReferenceField("1", "address"),
         ReferenceField("2", "name"), ReferenceField("2", "mobile"),
         ReferenceField("2", "email"), ReferenceField("2", "address") >> }

Balances ==
    { [kind |-> "none"], [kind |-> "words"],
      [kind |-> "number", value |-> RInt(5)], [kind |-> "numeral", value |-> RInt(50)] }

\* the dicts given as analysis_results: the application always passes the
\* four keys with job_since_years 2; a caller may pass fewer keys
AnalysisOver(emiLists, counts, balances) ==
    { [emis_found |-> el, salary_slips_count |-> n, job_since_years |-> 2,
       average_bank_balance |-> b] : el \in emiLists, n \in counts, b \in balances }
    \cup { [emis_found |-> el, job_since_years |-> 5] : el \in emiLists }

\* a call with obligations of 50 on an income of 100
HeavyCall ==
    [ applicant_data |-> EmptyDict, salary_slips |-> <<Slip1>>,
      emis_list |-> <<Emi1, Emi1, Emi1, Emi1, Emi1>>, requested_loan_amount |-> 600,
      requested_tenure_years |-> Some(10), interest_rate |-> Zero,
      excluded_emis |-> {} ]

\* calls of calculate_eligibility whose results are given to generate_queries
QueryCallInputs ==
    ArgsOver({ [date_of_birth |-> Some(Text("/", 15, 6, 1996))],
               [date_of_birth |-> Some(Text("-", 1967, 12, 25))],
               EmptyDict },
             { <<>>, <<Slip1>> }, { <<>>, <<Emi1, Emi2>> },
             { 40, 600 }, { None, Some(10) }, { Zero })
    \cup { HeavyCall }

\* the application's policy with the minimum income set to 30 (thousands)
\* and the threshold of high existing obligations to 50 per cent
RaisedThresholds ==
    [AppConfig EXCEPT !.min_income_threshold = 30, !.high_foir_threshold = RInt(50)]

\* calls under that policy: incomes of 25 and 20 with an obligation of 10,
\* counted or excluded
RaisedCallInputs ==
    ArgsOver({ [date_of_birth |-> Some(Text("/", 15, 6, 1996))] },
             { <<SlipAtMinimum>>, <<SlipLow>> }, { <<Emi1>> }, {40}, {None}, {Zero})

\* eligibility_results: the results of those calls under the application's
\* policy and under the raised thresholds, and an empty dict
EligibilityInputs(now) ==
    { EmptyDict }
    \cup { r.result :
             r \in { q \in { calculate_eligibility(Init__(c[1]), now, c[2]) :
                               c \in ({AppConfig} \X QueryCallInputs)
                                     \cup ({RaisedThresholds} \X RaisedCallInputs) } :
                       q.status = "returned" } }

QueryArgs(analyses, eligibilities, docs, fields) ==
    { [analysis_results |-> ar, eligibility_results |-> er,
       pending_docs |-> [pending_documents |-> pd],
       pending_forms |-> [pending_form_fields |-> pf]] :
      ar \in analyses, er \in eligibilities, pd \in docs, pf \in fields }

\* every eligibility result with every pending list, for one obligation
\* list; and every obligation list, and every balance and count, with every
\* list of pending fields, for two results; and the reference fields
QueryInputs(now) ==
    QueryArgs(AnalysisOver({ <<Emi1, Emi2>> }, {1}, { [kind |-> "none"] }),
              EligibilityInputs(now), PendingDocLists, {<<>>})
    \cup QueryArgs(AnalysisOver(QueryEmiLists, {3}, { [kind |-> "none"] })
                   \cup AnalysisOver({ <<Emi2>> }, {0, 3}, Balances),
                   { EmptyDict,
                     calculate_eligibility(Init__(AppConfig), now, HeavyCall).result },
                   { <<>>, <<SalaryShortage(1)>> }, PendingFieldLists)
    \cup QueryArgs(AnalysisOver({ <<Emi2>> }, {3}, { [kind |-> "none"] }),
                   { EmptyDict }, { <<>>, <<SalaryShortage(1)>> }, ReferenceFieldLists)

\* What DocumentAnalyzer returns for the uploaded files.  A file is
\* [identified, extracted].
Identified(document_type) == [document_type |-> document_type]

Failure == [error |-> "failed"]

File(document_type, extracted) ==
    [identified |-> Identified(document_type), extracted |-> extracted]

\* an obligation as a bank statement lists it
EmiHome == [lender |-> "HDFC", emi_amount |-> 10, loan_type |-> "home"]

SlipAcme ==
    File("salary_slip",
         Slip1 @@ [ employee_name |-> Some("Asha Rao"), employer |-> Some("Acme"),
                    designation |-> Some("Engineer"), department |-> None ])

SlipBolt ==
    File("salary_slip",
         Slip2 @@ [ employee_name |-> Some("A Rao"), employer |-> Some("Bolt"),
                    designation |-> Some("Manager"), department |-> Some("Sales") ])

BankOf(emis) ==
    File("bank_statement",
         [ account_holder |-> Some("Asha Rao"), statement_period_months |-> 6,
           average_balance |-> [kind |-> "number", value |-> RInt(50)],
           emis_found |-> emis ])

BankShort ==
    File("bank_statement",
         [ account_holder |-> Some("A Rao"), statement_period_months |-> 3,
           average_balance |-> [kind |-> "number", value |-> RInt(5)],
           emis_found |-> <<Emi3>> ])

PanAsha ==
    File("pan_card", [ name |-> Some("Asha Rao"), father_name |-> Some("V Rao"),
                       pan_number |-> Some("ABCDE1234F") ])

PanOther ==
    File("pan_card", [ name |-> Some("Asha R"), father_name |-> None,
                       pan_number |-> Some("PQRST5678K") ])

\* the front of an Aadhar card, and the back, which shows the address only
AadharFront ==
    File("aadhar_card",
         [ name |-> Some("Asha Rao"), aadhar_number |-> Some("1234 5678 9012"),
           date_of_birth |-> Some(Text("/", 15, 6, 1996)),
           address |-> Some("12 MG Road") ])

AadharBack ==
    File("aadhar_card",
         [ name |-> None, aadhar_number |-> None, date_of_birth |-> None,
           address |-> Some("12 M.G. Road, Pune") ])

Form16Acme ==
    File("form16", [ employee_name |-> Some("Asha Rao"), employer |-> Some("Acme Ltd") ])

LoanHdfc == File("loan_statement", [ lender |-> "HDFC", outstanding |-> 900 ])

Leaflet == File("other", [ document_type |-> "other" ])

Unidentified == [ identified |-> Failure, extracted |-> Failure ]

\* a file of each category whose extraction succeeded
GoodFiles ==
    { SlipAcme, SlipBolt, BankOf(<<EmiHome, Emi2>>), BankShort, PanAsha, PanOther,
      AadharFront, AadharBack, Form16Acme, LoanHdfc, Leaflet }

\* a file of each category whose extraction returned a failure marker
FailedFiles ==
    { File(t, Failure) :
        t \in { "salary_slip", "bank_statement", "pan_card", "aadhar_card", "form16",
                "loan_statement" } }
    \cup { Unidentified }

\* the piles a user uploads for one analysis: one file, two files, and a
\* complete application with one failed file put in at any place
FullPile == << SlipAcme, BankOf(<<EmiHome, Emi2>>), PanAsha, AadharFront, LoanHdfc >>

InsertedAt(pile, k, file) == SubSeq(pile, 1, k) \o <<file>> \o SubSeq(pile, k + 1, Len(pile))

AnalysisPiles ==
    { <<f>> : f \in GoodFiles \cup FailedFiles }
    \cup { <<f, g>> : f \in GoodFiles \cup FailedFiles, g \in GoodFiles \cup FailedFiles }
    \cup { InsertedAt(FullPile, k, f) : k \in 0..Len(FullPile), f \in FailedFiles }

\* the piles of a session in which the user analyses more than once: two
\* obligations, one obligation, and no bank statement
SessionPiles ==
    { << SlipAcme, BankOf(<<EmiHome, Emi2>>), AadharFront >>,
      << SlipAcme, BankOf(<<Emi2>>) >>,
      << SlipAcme >> }

\* the values the user sets the policy widgets to
PolicyEdits ==
    { [key |-> "foir_salaried", value |-> RInt(40)],
      [key |-> "foir_salaried", value |-> RInt(60)],
      [key |-> "max_tenure_years", value |-> 1],
      [key |-> "max_tenure_years", value |-> 2] }

\* the front of the Aadhar card of an applicant who is 58 today
AadharSenior ==
    File("aadhar_card",
         [ name |-> Some("Asha Rao"), aadhar_number |-> Some("1234 5678 9012"),
           date_of_birth |-> Some(Text("-", 1967, 12, 25)),
           address |-> Some("12 MG Road") ])

\* the piles of a session with one analysis: an applicant of 58 and one of
\* 30, each with two obligations, the second with the loan statement that
\* corroborates the first obligation
RecalcPiles ==
    { << SlipAcme, BankOf(<<EmiHome, Emi2>>), AadharSenior >>,
      << SlipAcme, BankOf(<<EmiHome, Emi2>>), AadharFront, LoanHdfc >> }

\* the values the user sets the maximum-age widget to
AgeEdits ==
    { [key |-> "max_age_salaried", value |-> 55],
      [key |-> "max_age_salaried", value |-> 60] }

\* the amounts and rates the user enters
SessionAmounts == {40, 600}

SessionRates == {Zero}

\* the months the call will amortize over
MonthsOf(self, now, a) ==
    12 * TenureClamped(TenureAsked(a.requested_tenure_years,
                                   MaxTenure(self, AgeUsed(a.applicant_data, now))),
                       MaxTenure(self, AgeUsed(a.applicant_data, now)))

\* the model forms exact powers only up to MaxExactMonths
Exact(self, now, a) ==
    a.interest_rate = Zero \/ MonthsOf(self, now, a) <= MaxExactMonths

----------------------------------------------------------------------------
(* The calculator and its caller *)

\* a call that kept the tenure ceiling it worked out in self
SelfKeepsTenure(self, now, a) ==
    [self EXCEPT !.MAX_TENURE_YEARS = MaxTenure(self, AgeUsed(a.applicant_data, now))]

\* what a call of calculate_eligibility leaves in self: it assigns no field
SelfAfterCall(self, now, a) == self

\* the application before any document is analysed (app.py, module level)
\* (categorized_docs is {} there, None here)
SessionStart ==
    [ analyzed_data |-> None, categorized_docs |-> None, excluded_emis |-> <<>>,
      loan_config |-> AppConfig ]

WidgetsStart == [ requested_amount |-> 40, interest_rate |-> Zero ]

InitOver(configs) ==
    /\ \E c \in configs : calc = Init__(c) /\ supplied = Some(c)
    /\ today \in Todays
    /\ pc = "idle"
    /\ args = None
    /\ outcome = None
    /\ remembered = None
    /\ gen = None
    /\ st = SessionStart
    /\ widgets = WidgetsStart
    /\ run = None

Init == InitOver(ConfigInputs)

DoUpdateConfig(c) ==
    /\ pc = "idle"
    /\ calc' = update_config(calc, c)
    /\ supplied' = Some(c)
    /\ remembered' = None
    /\ UNCHANGED <<today, pc, args, outcome>>
    /\ UNCHANGED appVars

UpdateConfig == \E c \in UpdateInputs : DoUpdateConfig(c)

DoCall(a) ==
    /\ pc = "idle"
    /\ Exact(calc, today, a)
    /\ args' = Some(a)
    /\ outcome' = Some(calculate_eligibility(calc, today, a))
    /\ calc' = SelfAfterCall(calc, today, a)
    /\ pc' = "called"
    /\ remembered' =
         IF IsNone(remembered) THEN None
         ELSE Some([remembered[1] EXCEPT !.between = @ \/ a # remembered[1].args])
    /\ UNCHANGED <<today, supplied>>
    /\ UNCHANGED appVars

Call == \E a \in CallInputs : DoCall(a)

CallHist == \E a \in HistInputs : DoCall(a)

\* the caller drops the result
Discard ==
    /\ pc = "called"
    /\ pc' = "idle"
    /\ args' = None
    /\ outcome' = None
    /\ UNCHANGED <<calc, today, remembered, supplied>>
    /\ UNCHANGED appVars

\* the caller keeps the result for a later comparison
Remember ==
    /\ pc = "called"
    /\ remembered = None
    /\ remembered' = Some([args |-> args[1], outcome |-> outcome[1], calc |-> calc,
                           between |-> FALSE])
    /\ pc' = "idle"
    /\ args' = None
    /\ outcome' = None
    /\ UNCHANGED <<calc, today, supplied>>
    /\ UNCHANGED appVars

Next == UpdateConfig \/ Call \/ Discard

Spec == Init /\ [][Next]_vars

\* LoanEligibilityCalculator(config): a new calculator replaces the old one
Construct ==
    /\ pc = "idle"
    /\ \E c \in RatioConfigs : calc' = Init__(c) /\ supplied' = Some(c)
    /\ remembered' = None
    /\ UNCHANGED <<today, pc, args, outcome>>
    /\ UNCHANGED appVars

UpdateRatios == \E c \in RatioConfigs : DoUpdateConfig(c)

NextConfig == Construct \/ UpdateRatios

SpecConfig == InitOver(RatioConfigs) /\ [][NextConfig]_vars

\* query_gen.generate_queries(analysis_summary, eligibility, pending_docs,
\* pending_forms): the caller holds the list the rules built and the list
\* returned
Generate ==
    /\ gen = None
    /\ \E g \in QueryInputs(today) :
         gen' = Some([ g         |-> g,
                       generated |-> GeneratedQueries(g.analysis_results,
                                                      g.eligibility_results,
                                                      g.pending_docs, g.pending_forms),
                       queries   |-> generate_queries(g) ])
    /\ UNCHANGED calcVars
    /\ UNCHANGED <<st, widgets, run>>

\* the caller drops the queries
ForgetQueries ==
    /\ gen # None
    /\ gen' = None
    /\ UNCHANGED calcVars
    /\ UNCHANGED <<st, widgets, run>>

NextQuery == Generate \/ ForgetQueries

SpecQuery == InitOver({AppConfig}) /\ [][NextQuery]_vars

\* "Analyze All Documents" with a pile of files: analyze_all_documents
\* starts with the values of the sidebar
DoAnalyze(uploaded_files) ==
    /\ run = None
    /\ uploaded_files # <<>>
    /\ run' = Some([ uploaded_files   |-> uploaded_files,
                     idx              |-> 0,
                     a                |-> AnalysisStart(widgets.requested_amount,
                                                        widgets.interest_rate),
                     requested_amount |-> widgets.requested_amount,
                     interest_rate    |-> widgets.interest_rate ])
    /\ UNCHANGED calcVars
    /\ UNCHANGED <<gen, st, widgets>>

\* one round of the loop over the files
ProcessNext ==
    /\ run # None
    /\ run[1].idx < Len(run[1].uploaded_files)
    /\ run' = Some([run[1] EXCEPT
                      !.idx = @ + 1,
                      !.a   = ProcessDocument(@, run[1].uploaded_files[run[1].idx + 1])])
    /\ UNCHANGED calcVars
    /\ UNCHANGED <<gen, st, widgets>>

\* the rest of analyze_all_documents: the session gets the analysis, or
\* the except clause leaves it as it was
FinishAnalysis ==
    /\ run # None
    /\ run[1].idx = Len(run[1].uploaded_files)
    /\ \E done \in { AnalysisOf(run[1].a, st, run[1].requested_amount,
                                run[1].interest_rate, today) } :
         st' = IF done.status = "raised" THEN st
               ELSE [st EXCEPT !.analyzed_data    = Some(done.analyzed_data),
                               !.categorized_docs = Some(done.analyzed_data.categorized)]
    /\ run' = None
    /\ UNCHANGED calcVars
    /\ UNCHANGED <<gen, widgets>>

Analyze == \E uploaded_files \in AnalysisPiles : DoAnalyze(uploaded_files)

\* one analysis of one pile
AnalyzeOnce == st.analyzed_data = None /\ Analyze

NextAnalysis == AnalyzeOnce \/ ProcessNext \/ FinishAnalysis

SpecAnalysis == InitOver({AppConfig}) /\ [][NextAnalysis]_vars

AnalyzeAgain == \E uploaded_files \in SessionPiles : DoAnalyze(uploaded_files)

\* a checkbox "Exclude from calculation" of the obligation with index i
\* changes: the index is appended or removed, then recalculate_eligibility
\* runs with the values of the sidebar
Toggled(session, i, sidebar, now) ==
    LET excluded == session.excluded_emis
        toggled  == IF \E k \in 1..Len(excluded) : excluded[k] = i
                    THEN SelectSeq(excluded, LAMBDA e : e # i)
                    ELSE Append(excluded, i)
    IN  recalculate_eligibility([session EXCEPT !.excluded_emis = toggled],
                                sidebar.requested_amount, sidebar.interest_rate, now)

ToggleExclusion ==
    /\ run = None
    /\ st.analyzed_data # None
    /\ \E i \in 0..(Len(st.analyzed_data[1].obligations) - 1) :
         st' = Toggled(st, i, widgets, today)
    /\ UNCHANGED calcVars
    /\ UNCHANGED <<gen, widgets, run>>

\* a policy widget gets another value: the script stores it in loan_config
\* and computes nothing
EditPolicy ==
    /\ run = None
    /\ \E e \in PolicyEdits :
         /\ st.loan_config[e.key] # e.value
         /\ st' = [st EXCEPT !.loan_config[e.key] = e.value]
    /\ UNCHANGED calcVars
    /\ UNCHANGED <<gen, widgets, run>>

\* the sidebar's amount or rate gets another value
EditLoanDetails ==
    /\ run = None
    /\ \E p \in SessionAmounts, r \in SessionRates :
         /\ widgets' = [requested_amount |-> p, interest_rate |-> r]
         /\ widgets' # widgets
    /\ UNCHANGED calcVars
    /\ UNCHANGED <<gen, st, run>>

\* "Recalculate" with the amount and rate entered next to it
Recalculate ==
    /\ run = None
    /\ st.analyzed_data # None
    /\ \E p \in SessionAmounts, r \in SessionRates :
         st' = recalculate_eligibility(st, p, r, today)
    /\ UNCHANGED calcVars
    /\ UNCHANGED <<gen, widgets, run>>

NextSession ==
    \/ AnalyzeAgain \/ ProcessNext \/ FinishAnalysis
    \/ ToggleExclusion \/ EditPolicy \/ EditLoanDetails \/ Recalculate

SpecSession == InitOver({AppConfig}) /\ [][NextSession]_vars

\* the first analysis of a session
AnalyzeFirst ==
    /\ st.analyzed_data = None
    /\ \E uploaded_files \in RecalcPiles : DoAnalyze(uploaded_files)

\* the maximum-age widget gets another value: the script stores it in
\* loan_config and computes nothing
EditAgeLimit ==
    /\ run = None
    /\ \E e \in AgeEdits :
         /\ st.loan_config[e.key] # e.value
         /\ st' = [st EXCEPT !.loan_config[e.key] = e.value]
    /\ UNCHANGED calcVars
    /\ UNCHANGED <<gen, widgets, run>>

NextRecalc ==
    \/ AnalyzeFirst \/ ProcessNext \/ FinishAnalysis
    \/ ToggleExclusion \/ EditAgeLimit \/ EditLoanDetails \/ Recalculate

\* one analysis, then exclusions, recalculations and changes of the age limit
SpecRecalc == InitOver({AppConfig}) /\ [][NextRecalc]_vars

\* the checkbox of an obligation changes as in ToggleExclusion.  For the
\* comparison of a session with itself after an obligation was excluded and
\* included again, the session from before is remembered when the user
\* starts such a pair, and the second toggle of a pair is of the same index.
ToggleInPairs ==
    /\ run = None
    /\ st.analyzed_data # None
    /\ \E i \in 0..(Len(st.analyzed_data[1].obligations) - 1), pair \in BOOLEAN :
         /\ IF remembered = None
            THEN pair => \A k \in 1..Len(st.excluded_emis) : st.excluded_emis[k] # i
            ELSE pair /\ remembered[1].stage = "excluded" /\ remembered[1].index = i
         /\ st' = Toggled(st, i, widgets, today)
         /\ remembered' =
              IF ~pair THEN None
              ELSE IF remembered = None
              THEN Some([ session |-> st, index |-> i, stage |-> "excluded" ])
              ELSE Some([remembered[1] EXCEPT !.stage = "restored"])
    /\ UNCHANGED <<calc, today, pc, args, outcome, supplied>>
    /\ UNCHANGED <<gen, widgets, run>>

\* the comparison is over
ForgetRoundTrip ==
    /\ remembered # None
    /\ remembered[1].stage = "restored"
    /\ remembered' = None
    /\ UNCHANGED <<calc, today, pc, args, outcome, supplied>>
    /\ UNCHANGED appVars

\* what the user does between two pairs of toggles
AnalyzeBetween == remembered = None /\ AnalyzeFirst

ProcessBetween == remembered = None /\ ProcessNext

FinishBetween == remembered = None /\ FinishAnalysis

EditPolicyBetween == remembered = None /\ EditPolicy

EditLoanDetailsBetween == remembered = None /\ EditLoanDetails

NextRoundTrip ==
    \/ AnalyzeBetween \/ ProcessBetween \/ FinishBetween
    \/ EditPolicyBetween \/ EditLoanDetailsBetween
    \/ ToggleInPairs \/ ForgetRoundTrip

\* one analysis, then exclusion toggles and changes of the policy and of
\* the sidebar, with an obligation excluded and included again at any time
SpecRoundTrip == InitOver({AppConfig}) /\ [][NextRoundTrip]_vars

NextHist == UpdateConfig \/ CallHist \/ Remember \/ Discard

SpecHist == Init /\ [][NextHist]_vars

----------------------------------------------------------------------------
(* Properties *)

Called == pc = "called"

Returned == Called /\ outcome[1].status = "returned"

Kinds(messages) == { messages[i].kind : i \in 1..Len(messages) }

\* the keys of calculations every result has
CommonKeys ==
    { "current_age", "remaining_service_years", "max_tenure_allowed",
      "approved_tenure_years", "gross_monthly_income", "fixed_income",
      "variable_income_considered", "income_breakdowns",
      "total_existing_obligations", "emi_details", "current_foir_percent",
      "max_emi_allowed", "max_loan_by_income", "emi_for_requested_loan",
      "foir_with_requested_loan" }

Populated(result) ==
    /\ DOMAIN result = {"eligible", "issues", "warnings", "calculations"}
    /\ CommonKeys \subseteq DOMAIN result.calculations

\* the sum of the amounts at the indices outside the exclusion set
RECURSIVE SumOver(_, _)
SumOver(emis_list, positions) ==
    IF positions = {} THEN 0
    ELSE LET i == CHOOSE j \in positions : TRUE
         IN  Get(emis_list[i], "emi_amount", 0) + SumOver(emis_list, positions \ {i})

SumNotExcluded(a) ==
    SumOver(a.emis_list, { i \in 1..Len(a.emis_list) : (i - 1) \notin a.excluded_emis })

\* C1: calculate_eligibility returns a fully populated result and raises
\* nothing, whatever the age, the tenure, the rate, the amount and the lists.
C1_NeverFaults ==
    Called => /\ outcome[1].status = "returned"
              /\ Populated(outcome[1].result)

\* C2: in every returned result, eligible holds exactly when the FOIR of
\* (obligations not excluded + EMI of the requested loan) over the gross
\* income is at most foirSalariedMax * 100, the age is below maxAgeSalaried
\* and the tenure used is at most maxTenureAllowed.
C2_VerdictRule ==
    Returned =>
        LET o    == outcome[1]
            foir == calculate_foir(RAdd(RInt(SumNotExcluded(args[1])),
                                        o.locals.emi_for_requested),
                                   o.locals.gross_income)
        IN  /\ o.locals.foir_with_loan = foir
            /\ o.result.eligible <=>
                 /\ RLe(foir, RMul(calc.FOIR_SALARIED, RInt(100)))
                 /\ o.result.calculations.current_age < calc.MAX_AGE_SALARIED
                 /\ o.result.calculations.approved_tenure_years
                      <= o.result.calculations.max_tenure_allowed

\* an eligible result whose FOIR with the loan is exactly the limit
C2_Witness ==
    /\ Returned
    /\ outcome[1].result.eligible
    /\ outcome[1].locals.foir_with_loan = RMul(calc.FOIR_SALARIED, RInt(100))
    /\ outcome[1].locals.emi_for_requested # Zero

\* C3: with no salary records and a nonzero requested amount the result is
\* not eligible and carries a FOIR-exceeded issue.
C3_ZeroIncomeRefused ==
    (Returned /\ args[1].salary_slips = <<>> /\ args[1].requested_loan_amount # 0)
        => /\ ~outcome[1].result.eligible
           /\ "foir" \in Kinds(outcome[1].result.issues)

\* the two calls differ in the exclusion set alone, the later one
\* excluding at least what the remembered one excluded
ExcludesMore ==
    /\ Called
    /\ ~IsNone(remembered)
    /\ [args[1] EXCEPT !.excluded_emis = {}]
         = [remembered[1].args EXCEPT !.excluded_emis = {}]
    /\ remembered[1].args.excluded_emis \subseteq args[1].excluded_emis

\* C4: with all else fixed, a larger exclusion set gives a total of
\* obligations and a FOIR with the requested loan that are no greater, and
\* an eligible verdict stays eligible.
C4_ExclusionMonotone ==
    ExcludesMore =>
        LET e1 == remembered[1].outcome
            e2 == outcome[1]
        IN  /\ RLe(e2.locals.total_obligations, e1.locals.total_obligations)
            /\ e1.status = e2.status
            /\ e1.status = "returned" =>
                 /\ RLe(e2.result.calculations.total_existing_obligations,
                        e1.result.calculations.total_existing_obligations)
                 /\ RLe(e2.locals.foir_with_loan, e1.locals.foir_with_loan)
                 /\ RLe(e2.result.calculations.foir_with_requested_loan,
                        e1.result.calculations.foir_with_requested_loan)
                 /\ e1.result.eligible => e2.result.eligible

\* excluding strictly more turned a refusal into an eligible verdict
C4_Witness ==
    /\ ExcludesMore
    /\ remembered[1].args.excluded_emis # args[1].excluded_emis
    /\ remembered[1].outcome.status = "returned"
    /\ outcome[1].status = "returned"
    /\ ~remembered[1].outcome.result.eligible
    /\ outcome[1].result.eligible
    /\ RLt(outcome[1].locals.total_obligations,
           remembered[1].outcome.locals.total_obligations)

C6_Aggregation ==
    Called =>
        LET a == args[1]
            o == outcome[1]
        IN  /\ o.locals.total_obligations = RInt(SumNotExcluded(a))
            /\ Returned =>
                 LET k == o.result.calculations
                 IN  /\ k.total_existing_obligations = RInt(SumNotExcluded(a))
                     /\ Len(k.emi_details) = Len(a.emis_list)
                     /\ \A i \in 1..Len(a.emis_list) :
                          /\ i \in DOMAIN k.emi_details
                          /\ k.emi_details[i].lender = a.emis_list[i].lender
                          /\ k.emi_details[i].amount = a.emis_list[i].emi_amount
                          /\ k.emi_details[i].type = a.emis_list[i].loan_type
                          /\ k.emi_details[i].has_loan_document
                               = Get(a.emis_list[i], "has_loan_document", FALSE)
                          /\ k.emi_details[i].excluded <=> (i - 1) \in a.excluded_emis

\* obligations of 10 and 5 with the first excluded: the total is 5 and
\* both are listed
C6_Witness ==
    /\ Returned
    /\ Len(args[1].emis_list) = 2
    /\ args[1].excluded_emis = {0}
    /\ outcome[1].result.calculations.total_existing_obligations = RInt(5)
    /\ Len(outcome[1].result.calculations.emi_details) = 2
    /\ outcome[1].result.calculations.emi_details[1].excluded
    /\ ~outcome[1].result.calculations.emi_details[2].excluded

\* min(maxTenureYears, max(0, maxAgeSalaried - age)) for the age the call used
MaxTenureAllowed ==
    LET gap == calc.MAX_AGE_SALARIED - outcome[1].locals.age
    IN  IF (IF gap > 0 THEN gap ELSE 0) < calc.MAX_TENURE_YEARS
        THEN (IF gap > 0 THEN gap ELSE 0) ELSE calc.MAX_TENURE_YEARS

\* the tenure the claim says the call uses
TenureExpected ==
    LET asked == args[1].requested_tenure_years
    IN  IF IsNone(asked) THEN MaxTenureAllowed
        ELSE IF asked[1] > MaxTenureAllowed THEN MaxTenureAllowed
        ELSE asked[1]

\* C7: with maxTenureAllowed = min(maxTenureYears, max(0, maxAgeSalaried -
\* age)): no request gives maxTenureAllowed and no tenure issue; a request
\* above it gives a tenure issue and maxTenureAllowed in the EMI, the
\* maximum loan and the verdict; any other request is used unchanged.
C7_Tenure ==
    Called =>
        LET a     == args[1]
            o     == outcome[1]
            asked == a.requested_tenure_years
            over  == ~IsNone(asked) /\ asked[1] > MaxTenureAllowed
        IN  /\ o.locals.max_tenure = MaxTenureAllowed
            /\ o.locals.requested_tenure_years = TenureExpected
            /\ o.locals.tenure_months = 12 * TenureExpected
            /\ o.locals.max_loan_by_income
                 = calculate_loan_amount_from_emi(o.locals.max_emi, a.interest_rate,
                                                  12 * TenureExpected)
            /\ Returned =>
                 /\ o.result.calculations.max_tenure_allowed = MaxTenureAllowed
                 /\ o.result.calculations.approved_tenure_years = TenureExpected
                 /\ Some(o.locals.emi_for_requested)
                      = EmiForRequested(RInt(a.requested_loan_amount), a.interest_rate,
                                        12 * TenureExpected)
                 /\ over <=> "tenure" \in Kinds(o.result.issues)
                 /\ over => \E i \in 1..Len(o.result.issues) :
                              o.result.issues[i]
                                = IssueTenure(asked[1], MaxTenureAllowed, o.locals.age)

\* age 58 under a limit of 60 asking for 10 years: an issue, and 2 years used
C7_Witness ==
    /\ Returned
    /\ outcome[1].locals.age = 58
    /\ calc.MAX_AGE_SALARIED = 60
    /\ args[1].requested_tenure_years = Some(10)
    /\ outcome[1].result.calculations.approved_tenure_years = 2
    /\ outcome[1].locals.tenure_months = 24
    /\ "tenure" \in Kinds(outcome[1].result.issues)

\* the date of birth of the call is absent or no date
AgeUndetermined ==
    /\ Called
    /\ IsNone(calculate_age(Get(args[1].applicant_data, "date_of_birth", None), today))

\* C8: a missing or unparseable date of birth never aborts the call: the
\* result has the issue, uses the caller's default age (30 when there is
\* none) and has every calculation.
C8_AgeFallback ==
    AgeUndetermined =>
        /\ outcome[1].status = "returned"
        /\ Populated(outcome[1].result)
        /\ "age_unknown" \in Kinds(outcome[1].result.issues)
        /\ outcome[1].result.calculations.current_age
             = Get(args[1].applicant_data, "age", 30)

\* C9: a result with an issue is not eligible.
C9_IssuesBlock ==
    (Returned /\ outcome[1].result.issues # <<>>) => ~outcome[1].result.eligible

\* the age test of the verdict fails while the obligations alone, the loan's
\* instalment over no months counted as 0, are within the FOIR limit
FoirPassesAgeFails ==
    /\ Called
    /\ outcome[1].locals.age >= calc.MAX_AGE_SALARIED
    /\ RLe(outcome[1].locals.current_foir, RMul(calc.FOIR_SALARIED, RInt(100)))

\* C10: when the FOIR test passes and the age or tenure test fails, the
\* call returns a result with the conditional-approval warning, no FOIR
\* issue, and approved_loan_amount = min(requestedAmount, maxLoanByIncome).
C10_ConditionalApproval ==
    /\ FoirPassesAgeFails =>
         /\ outcome[1].status = "returned"
         /\ "conditional" \in Kinds(outcome[1].result.warnings)
    /\ (/\ Returned
        /\ RLe(outcome[1].locals.foir_with_loan, RMul(calc.FOIR_SALARIED, RInt(100)))
        /\ ~outcome[1].result.eligible) =>
         /\ "conditional" \in Kinds(outcome[1].result.warnings)
         /\ "foir" \notin Kinds(outcome[1].result.issues)
         /\ "approved_loan_amount" \in DOMAIN outcome[1].result.calculations
         /\ outcome[1].result.calculations.approved_loan_amount
              = RMin(RInt(args[1].requested_loan_amount),
                     outcome[1].locals.max_loan_by_income)

\* the call returned and its unrounded FOIR with the loan is above the limit
FoirFails ==
    /\ Returned
    /\ RLt(RMul(calc.FOIR_SALARIED, RInt(100)), outcome[1].locals.foir_with_loan)

\* C11: whenever the FOIR with the requested loan is above foirSalariedMax *
\* 100, the result is not eligible, has a FOIR-exceeded issue quoting that
\* FOIR and the limit, has recommended_loan_amount equal to the maximum loan
\* by income (as reported, rounded to 2 places) and no approved_loan_amount.
C11_FoirHardBlock ==
    FoirFails =>
        LET o == outcome[1]
            k == o.result.calculations
        IN  /\ ~o.result.eligible
            /\ \E i \in 1..Len(o.result.issues) :
                 o.result.issues[i]
                   = IssueFoir(Round2(o.locals.foir_with_loan),
                               RMul(calc.FOIR_SALARIED, RInt(100)))
            /\ "recommended_loan_amount" \in DOMAIN k
            /\ k.recommended_loan_amount = Round2(o.locals.max_loan_by_income)
            /\ k.recommended_loan_amount = k.max_loan_by_income
            /\ "approved_loan_amount" \notin DOMAIN k
            /\ "conditional" \notin Kinds(o.result.warnings)

\* a FOIR failure with a positive capacity whose rounding is visible
C11_Witness ==
    /\ FoirFails
    /\ "recommended_loan_amount" \in DOMAIN outcome[1].result.calculations
    /\ RLt(Zero, outcome[1].result.calculations.recommended_loan_amount)
    /\ outcome[1].result.calculations.recommended_loan_amount
         # outcome[1].locals.max_loan_by_income

\* the field of the calculator that stores the ratio given under key
RatioField(self, key) ==
    IF key = "foir_salaried" THEN self.FOIR_SALARIED
    ELSE IF key = "high_foir_threshold" THEN self.HIGH_FOIR_THRESHOLD
    ELSE self.FOIR_SELF_EMPLOYED_MAX

\* C12: after construction with any configuration and after any sequence of
\* update_config calls every ratio field is a fraction in [0, 1], and a ratio
\* just supplied is stored divided by 100 when it is above 1 and unchanged
\* when it is at most 1.
C12_RatiosNormalized ==
    /\ \A key \in RatioKeys :
         /\ RLe(Zero, RatioField(calc, key))
         /\ RLe(RatioField(calc, key), RInt(1))
    /\ \A key \in RatioKeys \cap DOMAIN supplied[1] :
         RatioField(calc, key)
           = IF RLt(RInt(1), supplied[1][key])
             THEN RDiv(supplied[1][key], RInt(100)) ELSE supplied[1][key]

----------------------------------------------------------------------------
(* Properties of generate_queries *)

Generated == gen # None

Priorities == { "Critical", "High", "Medium", "Low" }

\* the queries of one priority, in the order they have in the list
OfPriority(queries, priority) == SelectSeq(queries, LAMBDA q : q.priority = priority)

\* C17: the returned list is a permutation of the generated queries in
\* which no query precedes one of a higher priority (Critical, High, Medium,
\* Low) and queries of equal priority keep their generation order.
C17_QueryOrder ==
    Generated =>
        LET made == gen[1].generated
            out  == gen[1].queries
        IN  /\ Len(out) = Len(made)
            /\ \A i \in 1..Len(out) : out[i].priority \in Priorities
            /\ \A i, j \in 1..Len(out) :
                 i < j => priority_order(out[i].priority) <= priority_order(out[j].priority)
            /\ \A p \in Priorities : OfPriority(out, p) = OfPriority(made, p)

\* all four priorities occur, the rules made a Medium query before a
\* Critical one, and two different High queries keep their order
C17_Witness ==
    /\ Generated
    /\ \A p \in Priorities : OfPriority(gen[1].queries, p) # <<>>
    /\ \E i, j \in 1..Len(gen[1].generated) :
         /\ i < j
         /\ gen[1].generated[i].priority = "Medium"
         /\ gen[1].generated[j].priority = "Critical"
    /\ Len(OfPriority(gen[1].queries, "High")) >= 2
    /\ OfPriority(gen[1].queries, "High")[1] # OfPriority(gen[1].queries, "High")[2]
    /\ gen[1].queries # gen[1].generated

\* the obligations given to the call
EmisFound == Get(gen[1].g.analysis_results, "emis_found", <<>>)

IsLoanLetter(q) ==
    /\ q.priority = "High"
    /\ Contains(q.query, Up(<<"loan", "outstanding", "letter">>))

IsCreditCardQuery(q) ==
    /\ q.priority = "Medium"
    /\ Contains(q.query, Up(<<"credit", "card", "statement">>))

\* the positions of the obligations without a corroborating loan document
Uncorroborated ==
    { i \in 1..Len(EmisFound) : ~Get(EmisFound[i], "has_loan_document", FALSE) }

\* C18: the returned list has exactly one High loan-outstanding-letter query
\* per obligation whose has_loan_document is false, naming its lender and
\* loan type, and none for a corroborated obligation; and exactly one Medium
\* credit-card-statement query iff some obligation has the type 'credit card'.
C18_ObligationQueries ==
    Generated =>
        LET out     == gen[1].queries
            letters == SelectSeq(out, IsLoanLetter)
            cards   == SelectSeq(out, IsCreditCardQuery)
        IN  /\ Len(letters) = Cardinality(Uncorroborated)
            /\ \A i \in Uncorroborated :
                 \E k \in 1..Len(letters) :
                    /\ Contains(letters[k].query,
                                StrTokens(OrUnknown(EmisFound[i], "lender")))
                    /\ Contains(Recase(letters[k].query, "lower"),
                                Recase(StrTokens(OrUnknown(EmisFound[i], "loan_type")),
                                       "lower"))
            /\ Len(cards) = IF \E i \in 1..Len(EmisFound) :
                                  Get(EmisFound[i], "loan_type", "") = "credit card"
                            THEN 1 ELSE 0

\* the positions of the issues whose text has the phrase, lower-cased or not
IssuesWith(phrase, lowered) ==
    LET issues == Get(gen[1].g.eligibility_results, "issues", <<>>)
    IN  { i \in 1..Len(issues) :
            Contains(IF lowered THEN Recase(IssueText(issues[i]), "lower")
                     ELSE IssueText(issues[i]),
                     phrase) }

IsCritical(q) == q.priority = "Critical"

IsTenureAgeQuery(q) ==
    /\ q.priority = "High"
    /\ Contains(q.query, Up(<<"loan", "term", "not", "as", "per", "norms">>))

\* C19: for an eligible result the returned list has no Critical query; for
\* a result that is not eligible it has one Critical query per issue
\* mentioning FOIR, each quoting the FOIR with the requested loan, and one
\* High tenure-vs-age query per issue mentioning age; no other rule makes a
\* Critical query.
C19_CriticalQueries ==
    Generated =>
        LET er        == gen[1].g.eligibility_results
            out       == gen[1].queries
            criticals == SelectSeq(out, IsCritical)
            foir      == Calculation(er, "foir_with_requested_loan")
        IN  /\ Get(er, "eligible", FALSE) => criticals = <<>>
            /\ ~Get(er, "eligible", FALSE) =>
                 /\ Len(criticals) = Cardinality(IssuesWith(Up(<<"foir">>), FALSE))
                 /\ Len(SelectSeq(out, IsTenureAgeQuery))
                      = Cardinality(IssuesWith(Lo(<<"age">>), TRUE))
            /\ \A k \in 1..Len(criticals) :
                 /\ criticals[k].category = "eligibility"
                 /\ Contains(criticals[k].query, Up(<<"foir">>) \o Lo(<<"at">>)
                                                 \o Num(foir, 10) \o Sym(<<"%">>))

\* a refused result with a FOIR issue and two issues mentioning age gives
\* one Critical query and two tenure-vs-age queries
C19_Witness ==
    /\ Generated
    /\ ~Get(gen[1].g.eligibility_results, "eligible", FALSE)
    /\ Cardinality(IssuesWith(Up(<<"foir">>), FALSE)) = 1
    /\ Cardinality(IssuesWith(Lo(<<"age">>), TRUE)) = 2
    /\ Len(SelectSeq(gen[1].queries, IsCritical)) = 1
    /\ Len(SelectSeq(gen[1].queries, IsTenureAgeQuery)) = 2
    /\ Calculation(gen[1].g.eligibility_results, "foir_with_requested_loan") # Zero

\* an eligible result that carries an issue gives no Critical query
C19_WitnessEligible ==
    /\ Generated
    /\ Get(gen[1].g.eligibility_results, "eligible", FALSE)
    /\ Get(gen[1].g.eligibility_results, "issues", <<>>) # <<>>
    /\ SelectSeq(gen[1].queries, IsCritical) = <<>>

\* pending_documents is one salary-slip shortage and no form field is pending
OnlySalarySlipPending ==
    /\ Generated
    /\ \E n \in 0..2 : gen[1].g.pending_docs.pending_documents = <<SalaryShortage(n)>>
    /\ Get(gen[1].g.pending_forms, "pending_form_fields", <<>>) = <<>>

FirstIsSalarySlip ==
    /\ gen[1].queries # <<>>
    /\ gen[1].queries[1].priority = "High"
    /\ Contains(gen[1].queries[1].query, Ti(<<"salary", "slip">>))

\* C20 as stated: with exactly one salary-slip-shortage entry pending and
\* nothing else, the first returned query is High and mentions "Salary Slip".
C20_FirstIsSalarySlip == OnlySalarySlipPending => FirstIsSalarySlip

\* C20 amended: the same, when the eligibility result is eligible or has no
\* issue mentioning FOIR (so that no Critical query is generated).
C20_FirstIsSalarySlipUnlessCritical ==
    (/\ OnlySalarySlipPending
     /\ \/ Get(gen[1].g.eligibility_results, "eligible", FALSE)
        \/ IssuesWith(Up(<<"foir">>), FALSE) = {})
        => /\ FirstIsSalarySlip
           /\ gen[1].queries[1] = DocumentQuery(gen[1].g.pending_docs.pending_documents[1])

\* the salary-slip document query leads a list in which other High queries
\* and Medium queries follow
C20_Witness ==
    /\ OnlySalarySlipPending
    /\ FirstIsSalarySlip
    /\ SelectSeq(gen[1].queries, IsCritical) = <<>>
    /\ Len(OfPriority(gen[1].queries, "High")) >= 3
    /\ OfPriority(gen[1].queries, "Medium") # <<>>
    /\ ~Get(gen[1].g.eligibility_results, "eligible", FALSE)

----------------------------------------------------------------------------
(* Properties of the application *)

\* the analysis the session holds
Stored == st.analyzed_data[1]

\* every excluded index is a position of the stored obligation list
IndicesInList ==
    st.analyzed_data # None =>
        \A k \in 1..Len(st.excluded_emis) :
            st.excluded_emis[k] \in 0..(Len(Stored.obligations) - 1)

\* an analysis run ends and stores its analysis
AnalysisStored == run # None /\ run' = None /\ st'.analyzed_data # st.analyzed_data

\* C13: every index in the session's exclusion set is a position of the
\* current obligation list, and a step in which an analysis run replaces the
\* stored analysis leaves the exclusion set empty.
C13_ExclusionsValid ==
    []IndicesInList /\ [][AnalysisStored => st'.excluded_emis = <<>>]_vars

\* the fields of applicant_info the profile is made of
ProfileFields ==
    { "applicant_name", "employer", "designation", "department", "date_of_birth",
      "current_address", "pan_masked", "aadhar_masked" }

\* the field holds a value other than None and ""
FieldPopulated(applicant_info, key) ==
    /\ key \in DOMAIN applicant_info
    /\ applicant_info[key] # None
    /\ key = "date_of_birth" \/ applicant_info[key] # Some("")

\* C14: while the files of one analysis are processed, a profile field
\* (name, employer, designation, department, date of birth, current address,
\* masked PAN, masked Aadhar) that an earlier file populated keeps its value
\* in every later round of the loop and in the analysis that is stored.
C14_FirstWriteWins ==
    [][ \A key \in ProfileFields :
          (run # None /\ FieldPopulated(run[1].a.applicant_info, key)) =>
              /\ run' # None =>
                   /\ key \in DOMAIN run'[1].a.applicant_info
                   /\ run'[1].a.applicant_info[key] = run[1].a.applicant_info[key]
              /\ (run' = None /\ st' # st) =>
                   st'.analyzed_data[1].applicant_info[key]
                     = run[1].a.applicant_info[key] ]_vars

\* what the calculator returns for the session's policy configuration and
\* exclusion set, the recorded salary records and obligations, and the
\* amount and rate recorded with them
CurrentEligibility ==
    calculate_eligibility(
        Init__(st.loan_config), today,
        EligibilityCall(Stored.applicant_info, Stored.salary_analysis.salary_slips,
                        [i \in 1..Len(Stored.obligations) |->
                           EmiOfDetail(Stored.obligations[i])],
                        Stored.applicant_info.loan_amount,
                        Stored.applicant_info.interest_rate, st.excluded_emis))

\* what the generator returns for that result
CurrentQueries ==
    FormattedQueries([i \in 1..Len(Stored.obligations) |-> EmiOfDetail(Stored.obligations[i])],
                     Stored.salary_analysis.salary_slips,
                     AverageBalance(Stored.bank_statement_data),
                     CurrentEligibility.result, Stored)

\* C15: between triggers, the stored eligibility result and query list are
\* what the calculator and the generator produce from the current policy
\* configuration, the current exclusion set, the recorded amount and rate,
\* and the recorded salary records and obligations.
C15_ResultsCurrent ==
    (run = None /\ st.analyzed_data # None /\ CurrentEligibility.status = "returned") =>
        /\ Stored.eligibility = CurrentEligibility.result
        /\ Stored.queries = CurrentQueries

\* the files whose identification and extraction returned no failure marker
WithoutFailures(uploaded_files) ==
    SelectSeq(uploaded_files, LAMBDA f : ~IsError(f.identified) /\ ~IsError(f.extracted))

\* the analysis of the run's files without the failed ones
AnalysisWithoutFailures ==
    LET files == WithoutFailures(run[1].uploaded_files)
    IN  AnalysisOf(ProcessedUpTo(files, Len(files), run[1].requested_amount,
                                 run[1].interest_rate),
                   st, run[1].requested_amount, run[1].interest_rate, today)

\* C16: when an analysis run ends, the salary records, the obligations, the
\* applicant profile and the checklist of supplied and pending documents it
\* stores are those of the same run without the files whose extraction
\* returned a failure marker, for a failed file of every category.
C16_FailureMeansNoData ==
    [][ (run # None /\ run' = None /\ AnalysisWithoutFailures.status = "stored") =>
          /\ st'.analyzed_data # None
          /\ LET got  == st'.analyzed_data[1]
                 want == AnalysisWithoutFailures.analyzed_data
             IN  /\ got.salary_analysis = want.salary_analysis
                 /\ got.obligations = want.obligations
                 /\ got.applicant_info = want.applicant_info
                 /\ got.pending_docs = want.pending_docs ]_vars

\* a call at rate 0 over n > 0 months that returned
ZeroRateReturned ==
    /\ Returned
    /\ args[1].interest_rate = Zero
    /\ outcome[1].locals.tenure_months > 0

\* the requested amount over the months of the call
AmountPerMonth ==
    RDiv(RInt(args[1].requested_loan_amount), RInt(outcome[1].locals.tenure_months))

\* C21 as stated: at rate 0 and n > 0 months the reported
\* emi_for_requested_loan is requestedAmount / n exactly, and the reported
\* max_loan_by_income is the reported max_emi_allowed * n.
C21_ZeroRateExact ==
    ZeroRateReturned =>
        LET k == outcome[1].result.calculations
        IN  /\ k.emi_for_requested_loan = AmountPerMonth
            /\ k.max_loan_by_income
                 = RMul(k.max_emi_allowed, RInt(outcome[1].locals.tenure_months))

\* C21 amended: at rate 0 and n > 0 months the EMI computed for the
\* requested loan is requestedAmount / n exactly and the maximum loan by
\* income is the unrounded maximum EMI * n; each is reported rounded to 2
\* decimal places.
C21_ZeroRateRounded ==
    ZeroRateReturned =>
        LET o == outcome[1]
            k == o.result.calculations
        IN  /\ o.locals.emi_for_requested = AmountPerMonth
            /\ k.emi_for_requested_loan = Round2(AmountPerMonth)
            /\ o.locals.max_loan_by_income
                 = RMul(o.locals.max_emi, RInt(o.locals.tenure_months))
            /\ k.max_loan_by_income
                 = Round2(RMul(o.locals.max_emi, RInt(o.locals.tenure_months)))
            /\ k.max_emi_allowed = Round2(o.locals.max_emi)

\* 40 over 24 months at rate 0: 1.666... is reported as 1.67, with a
\* positive capacity
C21_Witness ==
    /\ ZeroRateReturned
    /\ args[1].requested_loan_amount = 40
    /\ outcome[1].locals.tenure_months = 24
    /\ outcome[1].result.calculations.emi_for_requested_loan = Rat(167, 100)
    /\ RLt(Zero, outcome[1].locals.max_emi)

\* a maximum EMI that is no multiple of 0.01, so that rounding it before
\* the multiplication and after it differ
C21_WitnessCapacity ==
    /\ ZeroRateReturned
    /\ outcome[1].result.calculations.max_emi_allowed # outcome[1].locals.max_emi
    /\ outcome[1].result.calculations.max_loan_by_income
         # RMul(outcome[1].result.calculations.max_emi_allowed,
                RInt(outcome[1].locals.tenure_months))

\* the four values recalculate_eligibility assigns at its end
Replaced(data) ==
    [ eligibility |-> data.eligibility, applicant_info |-> data.applicant_info,
      obligations |-> data.obligations, queries |-> data.queries ]

\* the four values one complete run of the computation of
\* recalculate_eligibility yields on the session for the amount p and the
\* rate r, or None where the computation raises
CompleteComputation(session, p, r) ==
    Let(session.analyzed_data[1], LAMBDA stored :
      Let(Recollected(stored, Init__(session.loan_config), p, r), LAMBDA c :
        Let(calculate_eligibility(
                Init__(session.loan_config), today,
                EligibilityCall(c.applicant_info, stored.salary_analysis.salary_slips,
                                c.all_emis, p, r, session.excluded_emis)),
            LAMBDA eligibility :
              IF eligibility.status = "raised" \/ stored.bank_statement_data = None
              THEN None
              ELSE Some([ eligibility    |-> eligibility.result,
                          applicant_info |-> c.applicant_info,
                          obligations    |-> eligibility.result.calculations.emi_details,
                          queries        |->
                            FormattedQueries(
                                c.all_emis, stored.salary_analysis.salary_slips,
                                AverageBalance(stored.bank_statement_data),
                                eligibility.result, stored) ]))))

\* a step in which recalculate_eligibility ran on a stored analysis: the
\* policy, the sidebar and the run are as before and the session is not
RecalculationStep ==
    /\ run = None /\ run' = None
    /\ st.analyzed_data # None /\ st'.analyzed_data # None
    /\ st'.loan_config = st.loan_config
    /\ widgets' = widgets
    /\ st' # st

\* C22: a recalculation either replaces the stored eligibility result,
\* applicant info, obligation list and query list together by the values of
\* one complete computation or, if that computation fails, leaves all four
\* as they were.
C22_AtomicReplacement ==
    [][ RecalculationStep =>
          \E p \in SessionAmounts, r \in SessionRates :
            \E done \in { CompleteComputation([st EXCEPT !.excluded_emis = st'.excluded_emis],
                                               p, r) } :
              IF done = None
              THEN Replaced(st'.analyzed_data[1]) = Replaced(st.analyzed_data[1])
              ELSE Replaced(st'.analyzed_data[1]) = done[1] ]_vars

\* an exclusion was toggled under an age limit the applicant has reached:
\* the recalculation failed and the stored result still shows no exclusion
C22_WitnessFailed ==
    /\ run = None /\ st.analyzed_data # None
    /\ st.excluded_emis = <<0>>
    /\ st.loan_config.max_age_salaried = 55
    /\ ~st.analyzed_data[1].obligations[1].excluded
    /\ st.analyzed_data[1].eligibility.calculations.total_existing_obligations = RInt(15)

\* an exclusion was toggled and the four values were replaced together
C22_Witness ==
    /\ run = None /\ st.analyzed_data # None
    /\ st.excluded_emis = <<0>>
    /\ st.analyzed_data[1].obligations[1].excluded
    /\ st.analyzed_data[1].eligibility.calculations.total_existing_obligations = RInt(5)
    /\ st.analyzed_data[1].eligibility.calculations.emi_details
         = st.analyzed_data[1].obligations
    /\ st.analyzed_data[1].applicant_info.loan_amount = 600

\* the ten fixed and the five variable components of a salary record
TenFixed ==
    { "basic", "hra", "conveyance_allowance", "travel_allowance", "medical_allowance",
      "special_allowance", "lta", "city_compensatory_allowance", "education_allowance",
      "other_allowances" }

FiveVariable == { "incentive", "overtime", "bonus", "commission", "arrears" }

\* the sum of the amounts at the places <<record, component>>, missing = 0
RECURSIVE SumAt(_, _)
SumAt(salary_slips, places) ==
    IF places = {} THEN 0
    ELSE LET pl == CHOOSE x \in places : TRUE
         IN  Get(Get(salary_slips[pl[1]], "earnings", EmptyDict), pl[2], 0)
             + SumAt(salary_slips, places \ {pl})

SumOfComponents(salary_slips, components) ==
    SumAt(salary_slips, (1..Len(salary_slips)) \X components)

\* C23: for k >= 1 salary records avgFixed is the sum of the ten fixed
\* components over all records divided by k, variableConsidered is the sum
\* of the five variable components over all records / 6 * 0.5 whatever k is,
\* and grossMonthlyIncome is their sum; for k = 0 all three are 0.  The
\* result of the call reports the three rounded to 2 places.
C23_Income ==
    Called =>
        LET slips    == args[1].salary_slips
            k        == Len(slips)
            income   == calculate_gross_monthly_income(slips)
            fixed    == IF k = 0 THEN Zero
                        ELSE RDiv(RInt(SumOfComponents(slips, TenFixed)), RInt(k))
            variable == IF k = 0 THEN Zero
                        ELSE RMul(RDiv(RInt(SumOfComponents(slips, FiveVariable)), RInt(6)),
                                  Rat(1, 2))
        IN  /\ income.fixed = fixed
            /\ income.variable = variable
            /\ income.gross = RAdd(fixed, variable)
            /\ outcome[1].locals.gross_income = RAdd(fixed, variable)
            /\ Returned =>
                 /\ outcome[1].result.calculations.fixed_income = Round2(fixed)
                 /\ outcome[1].result.calculations.variable_income_considered
                      = Round2(variable)
                 /\ outcome[1].result.calculations.gross_monthly_income
                      = Round2(RAdd(fixed, variable))

\* three records with fixed pay of 50, 100 and 90 and variable pay of 4, 0
\* and 36: 80 + 40 / 12
C23_Witness ==
    /\ Returned
    /\ Len(args[1].salary_slips) = 3
    /\ outcome[1].locals.gross_income = Rat(250, 3)
    /\ outcome[1].result.calculations.fixed_income = RInt(80)
    /\ outcome[1].result.calculations.variable_income_considered = Rat(333, 100)

\* no record: an income of 0
C23_WitnessNoRecord ==
    /\ Returned
    /\ args[1].salary_slips = <<>>
    /\ outcome[1].result.calculations.gross_monthly_income = Zero
    /\ outcome[1].result.calculations.fixed_income = Zero
    /\ outcome[1].result.calculations.variable_income_considered = Zero

\* grossMonthlyIncome * foirSalariedMax for the call made
ObligationCeiling == RMul(outcome[1].locals.gross_income, calc.FOIR_SALARIED)

\* C24: maxEmiAllowed is max(0, grossMonthlyIncome * foirSalariedMax -
\* totalObligations) and never negative; when the obligations that are not
\* excluded meet or exceed grossMonthlyIncome * foirSalariedMax, maxEmiAllowed
\* and maxLoanByIncome are both 0.
C24_Capacity ==
    Called =>
        LET o     == outcome[1]
            total == RInt(SumNotExcluded(args[1]))
        IN  /\ o.locals.max_emi
                 = (IF RLe(ObligationCeiling, total) THEN Zero
                    ELSE RSub(ObligationCeiling, total))
            /\ RLe(Zero, o.locals.max_emi)
            /\ RLe(ObligationCeiling, total) =>
                 /\ o.locals.max_emi = Zero
                 /\ o.locals.max_loan_by_income = Zero
            /\ Returned =>
                 /\ o.result.calculations.max_emi_allowed = Round2(o.locals.max_emi)
                 /\ RLe(Zero, o.result.calculations.max_emi_allowed)
                 /\ RLe(ObligationCeiling, total) =>
                      /\ o.result.calculations.max_emi_allowed = Zero
                      /\ o.result.calculations.max_loan_by_income = Zero

\* an income of 20 with a ceiling of 12 and obligations of 15
C24_Witness ==
    /\ Returned
    /\ outcome[1].locals.gross_income = RInt(20)
    /\ RLt(ObligationCeiling, RInt(SumNotExcluded(args[1])))
    /\ outcome[1].result.calculations.max_emi_allowed = Zero
    /\ outcome[1].result.calculations.max_loan_by_income = Zero

\* an income of 25 with a ceiling of 15 and obligations of 15
C24_WitnessMet ==
    /\ Returned
    /\ RLt(Zero, ObligationCeiling)
    /\ ObligationCeiling = RInt(SumNotExcluded(args[1]))
    /\ outcome[1].result.calculations.max_emi_allowed = Zero

\* the FOIR of the obligations that are not excluded, before the loan
PreLoanFoir ==
    IF outcome[1].locals.gross_income = Zero THEN Zero
    ELSE RMul(RDiv(RInt(SumNotExcluded(args[1])), outcome[1].locals.gross_income),
              RInt(100))

LowIncomeWarned == "low_income" \in Kinds(outcome[1].result.warnings)

HighFoirWarned == "high_foir" \in Kinds(outcome[1].result.warnings)

\* C25: in every returned result the low-income warning is present exactly
\* when grossMonthlyIncome < minIncomeThreshold and the
\* high-existing-obligations warning exactly when the pre-loan FOIR >
\* highFoirThreshold * 100; neither is an issue, and eligible is decided by
\* the FOIR with the loan, the age and the tenure alone.
C25_AdvisoryWarnings ==
    Returned =>
        LET o == outcome[1]
        IN  /\ LowIncomeWarned <=>
                 RLt(o.locals.gross_income, RInt(calc.MIN_INCOME_THRESHOLD))
            /\ HighFoirWarned <=>
                 RLt(RMul(calc.HIGH_FOIR_THRESHOLD, RInt(100)), PreLoanFoir)
            /\ {"low_income", "high_foir"} \cap Kinds(o.result.issues) = {}
            /\ o.result.eligible <=>
                 /\ RLe(o.locals.foir_with_loan, RMul(calc.FOIR_SALARIED, RInt(100)))
                 /\ o.result.calculations.current_age < calc.MAX_AGE_SALARIED
                 /\ o.result.calculations.approved_tenure_years
                      <= o.result.calculations.max_tenure_allowed

\* an eligible result that carries both warnings: an income of 20 below
\* the minimum of 25 and a pre-loan FOIR of 50 above 40
C25_Witness ==
    /\ Returned
    /\ outcome[1].result.eligible
    /\ LowIncomeWarned
    /\ HighFoirWarned
    /\ RLt(Zero, outcome[1].locals.gross_income)

\* an income equal to the minimum and a pre-loan FOIR equal to the
\* threshold: no warning
C25_WitnessAtThreshold ==
    /\ Returned
    /\ outcome[1].locals.gross_income = RInt(calc.MIN_INCOME_THRESHOLD)
    /\ PreLoanFoir = RMul(calc.HIGH_FOIR_THRESHOLD, RInt(100))
    /\ ~LowIncomeWarned
    /\ ~HighFoirWarned

\* the pending form fields given to generate_queries
PendingFields == Get(gen[1].g.pending_forms, "pending_form_fields", <<>>)

\* the pending fields with the word Reference in them
ReferenceFields ==
    { i \in 1..Len(PendingFields) :
        \E k \in 1..Len(PendingFields[i]) :
          PendingFields[i][k].w = "reference" /\ PendingFields[i][k].c = "title" }

IsReferenceQuery(q) ==
    /\ q.category = "verification"
    /\ q.priority = "Low"
    /\ Contains(q.query, Up(<<"reference", "details">>))

\* C26: generate_queries returns exactly one Low query, the one asking for
\* the reference details, when at least one pending form field mentions
\* Reference, however many do, and no Low query when none does.
C26_ReferenceOnce ==
    Generated =>
        LET low == OfPriority(gen[1].queries, "Low")
        IN  /\ Len(low) = (IF ReferenceFields = {} THEN 0 ELSE 1)
            /\ \A i \in 1..Len(low) : IsReferenceQuery(low[i])
            /\ Len(SelectSeq(gen[1].queries, IsReferenceQuery)) = Len(low)

\* eight reference fields are pending and one reference query is returned
C26_Witness ==
    /\ Generated
    /\ Cardinality(ReferenceFields) = 8
    /\ Len(OfPriority(gen[1].queries, "Low")) = 1
    /\ IsReferenceQuery(gen[1].queries[Len(gen[1].queries)])

\* one reference field is pending among others
C26_WitnessOne ==
    /\ Generated
    /\ Cardinality(ReferenceFields) = 1
    /\ Len(PendingFields) > 1
    /\ Len(OfPriority(gen[1].queries, "Low")) = 1

\* fields are pending, none of them a reference field: no Low query
C26_WitnessNone ==
    /\ Generated
    /\ PendingFields # <<>>
    /\ ReferenceFields = {}
    /\ gen[1].queries # <<>>
    /\ OfPriority(gen[1].queries, "Low") = <<>>

\* the session's exclusion set has the index i
InExclusionSet(i) == \E k \in 1..Len(st.excluded_emis) : st.excluded_emis[k] = i

\* C27: whenever an analysis is stored and none is running, obligation i of
\* the stored obligation list is flagged excluded exactly when i is in the
\* session's exclusion set, and the exclusion set has no index twice; this
\* after exclusion toggles and recalculations, failed ones included.
C27_FlagsMirror ==
    (run = None /\ st.analyzed_data # None) =>
        /\ \A i \in 1..Len(Stored.obligations) :
             Stored.obligations[i].excluded <=> InExclusionSet(i - 1)
        /\ \A k, l \in 1..Len(st.excluded_emis) :
             st.excluded_emis[k] = st.excluded_emis[l] => k = l

\* an obligation was excluded and included again
RoundTripDone == remembered # None /\ remembered[1].stage = "restored"

\* C28: after excluding obligation i and including it again, each with its
\* recalculation and with the sidebar amount, the rate and the policy as
\* they were, the exclusion set and the stored eligibility result are those
\* from before the two toggles.
C28_RoundTrip ==
    RoundTripDone =>
        /\ st.excluded_emis = remembered[1].session.excluded_emis
        /\ Stored.eligibility = remembered[1].session.analyzed_data[1].eligibility

\* what an entry of the stored obligation list records of its obligation
Recorded(obl) ==
    [ lender |-> obl.lender, amount |-> obl.amount, type |-> obl.type,
      has_loan_document |-> obl.has_loan_document ]

\* C29: in a session with one analysis, no step after the analysis changes
\* the length or the order of the stored obligation list or the lender,
\* amount, loan type or corroboration flag of an entry; the list is
\* therefore the one of the analysis but for the excluded flags.
C29_ObligationsKept ==
    [][ (st.analyzed_data # None /\ st'.analyzed_data # None) =>
          /\ Len(st'.analyzed_data[1].obligations) = Len(st.analyzed_data[1].obligations)
          /\ \A i \in 1..Len(st.analyzed_data[1].obligations) :
               Recorded(st'.analyzed_data[1].obligations[i])
                 = Recorded(st.analyzed_data[1].obligations[i]) ]_vars

\* after a recalculation for another amount with the second obligation
\* excluded: the first is still the corroborated HDFC home loan of 10
C29_Witness ==
    /\ run = None /\ st.analyzed_data # None
    /\ Stored.applicant_info.loan_amount = 600
    /\ st.excluded_emis = <<1>>
    /\ Len(Stored.obligations) = 2
    /\ Stored.obligations[2].excluded
    /\ Recorded(Stored.obligations[1])
         = [ lender |-> "HDFC", amount |-> 10, type |-> "home", has_loan_document |-> TRUE ]

\* generate_queries was given a result of calculate_eligibility
GeneratedFromResult ==
    /\ Generated
    /\ "warnings" \in DOMAIN gen[1].g.eligibility_results

\* the returned list has a query whose text has the phrase
HasQuery(category, phrase) ==
    \E i \in 1..Len(gen[1].queries) :
      /\ gen[1].queries[i].category = category
      /\ Contains(gen[1].queries[i].query, phrase)

\* C30: when generate_queries is given a result of calculate_eligibility,
\* the other-income-proof query is returned exactly when the result carries
\* the low-income warning and the stretched-ratios query exactly when it
\* carries the high-existing-obligations warning, whatever the thresholds of
\* the policy the result was computed under.
C30_QueriesMatchWarnings ==
    GeneratedFromResult =>
        LET warned == Kinds(gen[1].g.eligibility_results.warnings)
        IN  /\ HasQuery("eligibility", Up(<<"other", "income", "proof">>))
                 <=> "low_income" \in warned
            /\ HasQuery("ratios", Up(<<"stretched", "ratios">>))
                 <=> "high_foir" \in warned

====
